---------------------------- MODULE Spec2Model ----------------------------
(***************************************************************************)
(* yourSQLfriend: the read-only query safety gate.                         *)
(*                                                                         *)
(*   src/src/yoursqlfriend/validation.py   strip_strings_and_comments,     *)
(*                                         validate_sql                    *)
(*   src/src/yoursqlfriend/app.py          execute_sql (request handler)   *)
(*   src/src/yoursqlfriend/database.py     execute_and_parse_query         *)
(*   src/src/yoursqlfriend/llm.py          call_llm_non_streaming          *)
(*                                                                         *)
(* A Python str is a sequence of one-character strings; every string       *)
(* operation the code uses (strip, split, upper, startswith, slicing,      *)
(* "in", re.search) is defined below on such sequences.                    *)
(***************************************************************************)
EXTENDS Integers, Sequences, FiniteSets, TLC

(***************************************************************************)
(* Bounds of the model.                                                    *)
(***************************************************************************)
\* a text handed to validate_sql is a concatenation of at most this many
\* fragments
MaxFragments == 4

\* a text handed to strip_strings_and_comments alone has at most this many
\* characters
MaxCharacters == 5

(***************************************************************************)
(* Python str operations.                                                  *)
(***************************************************************************)
ascii_lowercase ==
  <<"a", "b", "c", "d", "e", "f", "g", "h", "i", "j", "k", "l", "m",
    "n", "o", "p", "q", "r", "s", "t", "u", "v", "w", "x", "y", "z">>

ascii_uppercase ==
  <<"A", "B", "C", "D", "E", "F", "G", "H", "I", "J", "K", "L", "M",
    "N", "O", "P", "Q", "R", "S", "T", "U", "V", "W", "X", "Y", "Z">>

digits == <<"0", "1", "2", "3", "4", "5", "6", "7", "8", "9">>

Range(s) == {s[i] : i \in 1..Len(s)}

Min(a, b) == IF a < b THEN a ELSE b

\* str.upper() on one character
upper_table ==
  [c \in Range(ascii_lowercase) |->
      ascii_uppercase[CHOOSE i \in 1..Len(ascii_lowercase) : ascii_lowercase[i] = c]]

upper_char(c) == IF c \in DOMAIN upper_table THEN upper_table[c] ELSE c

\* s.upper()
upper(s) == [i \in 1..Len(s) |-> upper_char(s[i])]

\* the characters str.strip() and str.rstrip() remove by default
whitespace == {" ", "\t", "\n", "\r", "\f"}

\* the characters the regex class \w matches
word_chars ==
  Range(ascii_lowercase) \cup Range(ascii_uppercase) \cup Range(digits) \cup {"_"}

\* s.rstrip(chars): drop the longest suffix made of characters of chars
rstrip_chars(s, chars) ==
  LET keep == {i \in 1..Len(s) : s[i] \notin chars}
      last == IF keep = {} THEN 0
              ELSE CHOOSE i \in keep : \A j \in (i + 1)..Len(s) : s[j] \in chars
  IN  SubSeq(s, 1, last)

\* s.lstrip(chars): drop the longest prefix made of characters of chars
lstrip_chars(s, chars) ==
  LET keep  == {i \in 1..Len(s) : s[i] \notin chars}
      first == IF keep = {} THEN Len(s) + 1
               ELSE CHOOSE i \in keep : \A j \in 1..(i - 1) : s[j] \in chars
  IN  SubSeq(s, first, Len(s))

rstrip(s) == rstrip_chars(s, whitespace)

strip(s) == rstrip_chars(lstrip_chars(s, whitespace), whitespace)

\* s.startswith(prefix)
startswith(s, prefix) ==
  /\ Len(prefix) <= Len(s)
  /\ SubSeq(s, 1, Len(prefix)) = prefix

\* the slice s[i:i+n] of Python, for the 1-based position i
slice(s, i, n) == SubSeq(s, i, Min(i + n - 1, Len(s)))

\* the position of the first occurrence of sub in s at or after position
\* from, 0 when there is none (str.find with a non-empty sub, shifted to
\* 1-based positions)
find(s, sub, from) ==
  LET hits == {i \in from..(Len(s) - Len(sub) + 1) :
                 s[i] = sub[1] /\ slice(s, i, Len(sub)) = sub}
  IN  IF hits = {} THEN 0 ELSE CHOOSE i \in hits : \A j \in hits : i <= j

\* sub in s
contains(s, sub) == find(s, sub, 1) # 0

\* s.split(sep) for a one-character separator
RECURSIVE split(_, _)
split(s, sep) ==
  LET i == find(s, <<sep>>, 1)
  IN  IF i = 0 THEN <<s>>
      ELSE <<SubSeq(s, 1, i - 1)>> \o split(SubSeq(s, i + 1, Len(s)), sep)

\* re.search(r'\b' + word + r'\b', s) finds a match; word starts and ends
\* with a \w character, so each \b asks for a non-\w neighbour (or none)
re_search_word(word, s) ==
  \E i \in 1..(Len(s) - Len(word) + 1) :
     /\ s[i] = word[1]
     /\ slice(s, i, Len(word)) = word
     /\ (i = 1 \/ s[i - 1] \notin word_chars)
     /\ (i + Len(word) > Len(s) \/ s[i + Len(word)] \notin word_chars)

\* the first of the indices hits of a list, in list order (a for loop that
\* returns at its first match); 0 when there is none
first_index(hits) ==
  IF hits = {} THEN 0 ELSE CHOOSE k \in hits : \A j \in hits : k <= j

(***************************************************************************)
(* validation.py                                                           *)
(***************************************************************************)
FORBIDDEN_QUERY_KEYWORDS ==
  << <<"D", "R", "O", "P">>,
     <<"D", "E", "L", "E", "T", "E">>,
     <<"I", "N", "S", "E", "R", "T">>,
     <<"U", "P", "D", "A", "T", "E">>,
     <<"A", "L", "T", "E", "R">>,
     <<"T", "R", "U", "N", "C", "A", "T", "E">>,
     <<"E", "X", "E", "C">>,
     <<"G", "R", "A", "N", "T">>,
     <<"R", "E", "V", "O", "K", "E">>,
     <<"C", "R", "E", "A", "T", "E">>,
     <<"A", "T", "T", "A", "C", "H">>,
     <<"D", "E", "T", "A", "C", "H">>,
     <<"R", "E", "P", "L", "A", "C", "E">>,
     <<"V", "A", "C", "U", "U", "M">>,
     <<"S", "A", "V", "E", "P", "O", "I", "N", "T">>,
     <<"R", "E", "L", "E", "A", "S", "E">>,
     <<"R", "E", "I", "N", "D", "E", "X">> >>

\* a variant of skip_line_comment that skips the newline as well
skip_line_comment_past_newline(sql, i) ==
  LET nl == find(sql, <<"\n">>, i)
  IN  IF nl = 0 THEN Len(sql) + 1 ELSE nl + 1

\* the inner loop of the '--' branch: the position of the next newline at or
\* after i, or one past the end
skip_line_comment(sql, i) ==
  LET nl == find(sql, <<"\n">>, i)
  IN  IF nl = 0 THEN Len(sql) + 1 ELSE nl

\* a variant of skip_block_comment that resumes the scan right after the
\* opener of a comment that is not closed
skip_block_comment_resume(sql, i) ==
  LET close == find(sql, <<"*", "/">>, i)
  IN  IF close = 0 THEN i ELSE close + 2

\* the inner loop of the '/*' branch, entered at the position after the
\* opener: the position after the first '*/', or 0 when the comment is not
\* closed
skip_block_comment(sql, i) ==
  LET close == find(sql, <<"*", "/">>, i)
  IN  IF close = 0 THEN 0 ELSE close + 2

\* the local variables of strip_strings_and_comments; result holds the
\* positions of the characters appended so far, and i is 1-based
Locals(i, in_single_quote, in_double_quote, result) ==
  [i |-> i, in_single_quote |-> in_single_quote,
   in_double_quote |-> in_double_quote, result |-> result]

\* one iteration of the while loop; none once the loop has ended
scan_step(sql, l) ==
  LET i == l.i
      in_single_quote == l.in_single_quote
      in_double_quote == l.in_double_quote
  IN  CASE i > Len(sql) -> l
        [] i <= Len(sql) /\ ~in_single_quote /\ ~in_double_quote
             /\ slice(sql, i, 2) = <<"-", "-">> ->
             [l EXCEPT !.i = skip_line_comment(sql, i)]
        [] i <= Len(sql) /\ ~in_single_quote /\ ~in_double_quote
             /\ slice(sql, i, 2) = <<"/", "*">> ->
             \* break when the comment is not closed
             [l EXCEPT !.i = IF skip_block_comment(sql, i + 2) = 0 THEN Len(sql) + 1
                             ELSE skip_block_comment(sql, i + 2)]
        [] i <= Len(sql) /\ sql[i] = "'" /\ ~in_double_quote ->
             IF in_single_quote /\ i + 1 <= Len(sql) /\ sql[i + 1] = "'"
             THEN [l EXCEPT !.i = i + 2]
             ELSE [l EXCEPT !.i = i + 1, !.in_single_quote = ~in_single_quote]
        [] i <= Len(sql) /\ sql[i] = "\"" /\ ~in_single_quote /\ in_double_quote ->
             IF i + 1 <= Len(sql) /\ sql[i + 1] = "\""
             THEN [l EXCEPT !.i = i + 2]
             ELSE [l EXCEPT !.i = i + 1, !.in_double_quote = FALSE]
        [] i <= Len(sql) /\ sql[i] = "\"" /\ ~in_single_quote /\ ~in_double_quote ->
             [l EXCEPT !.i = i + 1, !.in_double_quote = TRUE]
        [] OTHER ->
             [l EXCEPT !.i = i + 1,
                       !.result = IF ~in_single_quote /\ ~in_double_quote
                                  THEN Append(l.result, i) ELSE l.result]

\* the while loop, from the locals l, cut after n iterations
RECURSIVE scan(_, _, _)
scan(sql, l, n) ==
  IF n = 0 \/ l.i > Len(sql) THEN l
  ELSE IF n = 1 THEN scan_step(sql, l)
  ELSE LET half == scan(sql, l, n \div 2)
       IN  scan(sql, half, n - (n \div 2))

\* the positions of sql whose characters strip_strings_and_comments emits:
\* every iteration advances i, so the loop ends within Len(sql) iterations
emitted(sql) == scan(sql, Locals(1, FALSE, FALSE, <<>>), Len(sql)).result

strip_strings_and_comments(sql) ==
  LET result == emitted(sql)
  IN  [k \in 1..Len(result) |-> sql[result[k]]]

allowed_starts ==
  << <<"S", "E", "L", "E", "C", "T">>,
     <<"W", "I", "T", "H">>,
     <<"E", "X", "P", "L", "A", "I", "N">>,
     <<"P", "R", "A", "G", "M", "A">> >>

write_pragmas ==
  << <<"P", "R", "A", "G", "M", "A", " ", "J", "O", "U", "R", "N", "A", "L", "_", "M", "O", "D", "E">>,
     <<"P", "R", "A", "G", "M", "A", " ", "L", "O", "C", "K", "I", "N", "G", "_", "M", "O", "D", "E">>,
     <<"P", "R", "A", "G", "M", "A", " ", "W", "R", "I", "T", "A", "B", "L", "E", "_", "S", "C", "H", "E", "M", "A">>,
     <<"P", "R", "A", "G", "M", "A", " ", "A", "U", "T", "O", "_", "V", "A", "C", "U", "U", "M">>,
     <<"P", "R", "A", "G", "M", "A", " ", "I", "N", "C", "R", "E", "M", "E", "N", "T", "A", "L", "_", "V", "A", "C", "U", "U", "M">> >>

\* a reason is an f-string: its template and the text it interpolates
Reason(template, arg) == [template |-> template, arg |-> arg]

None == Reason("None", <<>>)

\* f"Query must start with: {', '.join(allowed_starts)}"
must_start_reason ==
  Reason("Query must start with: {}",
         <<"S", "E", "L", "E", "C", "T", ",", " ", "W", "I", "T", "H", ",", " ",
           "E", "X", "P", "L", "A", "I", "N", ",", " ",
           "P", "R", "A", "G", "M", "A">>)

multiple_statements_reason ==
  Reason("Security Warning: Multiple SQL statements are not allowed.", <<>>)

\* a variant that leaves the keyword out of the reason
forbidden_keyword_reason_unnamed(keyword) ==
  Reason("Security Warning: Query contains forbidden keyword '{}'.", <<>>)

forbidden_keyword_reason(keyword) ==
  Reason("Security Warning: Query contains forbidden keyword '{}'.", keyword)

cte_reason ==
  Reason("CTE (WITH clause) must contain a SELECT statement.", <<>>)

\* a variant of write_pragma_reason that gives no reason
write_pragma_reason_none(write_pragma) == None

write_pragma_reason(write_pragma) ==
  Reason("Security Warning: {} is not allowed (can modify database).", write_pragma)

\* a variant of first_code_line_of that takes the text of a '--' line for
\* code
first_code_line_of_uncommented(lines) ==
  LET code == {k \in 1..Len(lines) : lstrip_chars(strip(lines[k]), {"-"}) # <<>>}
  IN  IF code = {} THEN <<>>
      ELSE lstrip_chars(strip(lines[CHOOSE k \in code : \A j \in code : k <= j]), {"-"})

\* the for loop over lines: the first line that is not blank and is not a
\* '--' comment, stripped; '' when there is none
first_code_line_of(lines) ==
  LET code == {k \in 1..Len(lines) :
                 /\ strip(lines[k]) # <<>>
                 /\ ~startswith(strip(lines[k]), <<"-", "-">>)}
  IN  IF code = {} THEN <<>>
      ELSE strip(lines[CHOOSE k \in code : \A j \in code : k <= j])

\* sql_stripped.upper()
sql_upper_of(sql) == upper(strip(sql))

\* a variant of Rule 1 that looks for the allowed keyword anywhere in the
\* first code line
rule1_rejects_anywhere(sql) ==
  LET sql_stripped     == strip(sql)
      lines            == split(sql_stripped, "\n")
      first_code_line  == first_code_line_of(lines)
      first_code_upper == upper(first_code_line)
  IN  ~\E k \in 1..Len(allowed_starts) :
          contains(first_code_upper, allowed_starts[k])

\* Rule 1 fires: the first code line starts with none of allowed_starts
rule1_rejects(sql) ==
  LET sql_stripped     == strip(sql)
      lines            == split(sql_stripped, "\n")
      first_code_line  == first_code_line_of(lines)
      first_code_upper == upper(first_code_line)
  IN  ~\E k \in 1..Len(allowed_starts) :
          startswith(first_code_upper, allowed_starts[k])

\* a variant of Rule 2 that looks at the raw text
rule2_rejects_raw(sql) ==
  LET sql_trimmed == rstrip(rstrip_chars(rstrip(sql), {";"}))
  IN  contains(sql_trimmed, <<";">>)

\* a variant of Rule 2 that trims one trailing ';' at most
rule2_rejects_one_terminator(sql) ==
  LET sql_for_analysis == strip_strings_and_comments(sql)
      sql_rstripped    == rstrip(sql_for_analysis)
      sql_trimmed      == IF sql_rstripped # <<>> /\ sql_rstripped[Len(sql_rstripped)] = ";"
                          THEN rstrip(SubSeq(sql_rstripped, 1, Len(sql_rstripped) - 1))
                          ELSE sql_rstripped
  IN  contains(sql_trimmed, <<";">>)

\* Rule 2 fires: a ';' is left in the stripped text once trailing whitespace
\* and trailing ';' are trimmed
rule2_rejects(sql) ==
  LET sql_for_analysis == strip_strings_and_comments(sql)
      sql_trimmed      == rstrip(rstrip_chars(rstrip(sql_for_analysis), {";"}))
  IN  contains(sql_trimmed, <<";">>)

\* Rule 3: the index in FORBIDDEN_QUERY_KEYWORDS of the first keyword the for
\* loop finds in the stripped, uppercased text; 0 when it finds none
rule3_keyword(sql) ==
  LET sql_for_analysis       == strip_strings_and_comments(sql)
      sql_for_analysis_upper == upper(sql_for_analysis)
  IN  first_index({k \in 1..Len(FORBIDDEN_QUERY_KEYWORDS) :
                     re_search_word(FORBIDDEN_QUERY_KEYWORDS[k], sql_for_analysis_upper)})

\* a variant of Rule 4 that looks for SELECT in the tokenizer's output
rule4_rejects_stripped(sql) ==
  LET sql_upper == sql_upper_of(sql)
  IN  /\ startswith(sql_upper, <<"W", "I", "T", "H">>)
      /\ ~contains(upper(strip_strings_and_comments(sql)), <<"S", "E", "L", "E", "C", "T">>)

\* Rule 4 fires: the text starts with WITH and holds no SELECT
rule4_rejects(sql) ==
  LET sql_upper == sql_upper_of(sql)
  IN  /\ startswith(sql_upper, <<"W", "I", "T", "H">>)
      /\ ~contains(sql_upper, <<"S", "E", "L", "E", "C", "T">>)

\* Rule 5: the index in write_pragmas of the first write pragma the for loop
\* finds in a text that starts with PRAGMA; 0 when it finds none
rule5_pragma(sql) ==
  LET sql_upper == sql_upper_of(sql)
  IN  IF startswith(sql_upper, <<"P", "R", "A", "G", "M", "A">>)
      THEN first_index({k \in 1..Len(write_pragmas) : contains(sql_upper, write_pragmas[k])})
      ELSE 0

\* a variant that applies the blocklist before the single-statement rule
validate_sql_blocklist_first(sql) ==
  IF rule1_rejects(sql)
  THEN [valid |-> FALSE, reason |-> must_start_reason]
  ELSE IF rule3_keyword(sql) # 0
  THEN [valid |-> FALSE,
        reason |-> forbidden_keyword_reason(FORBIDDEN_QUERY_KEYWORDS[rule3_keyword(sql)])]
  ELSE IF rule2_rejects(sql)
  THEN [valid |-> FALSE, reason |-> multiple_statements_reason]
  ELSE IF rule4_rejects(sql)
  THEN [valid |-> FALSE, reason |-> cte_reason]
  ELSE IF rule5_pragma(sql) # 0
  THEN [valid |-> FALSE, reason |-> write_pragma_reason(write_pragmas[rule5_pragma(sql)])]
  ELSE [valid |-> TRUE, reason |-> None]

validate_sql(sql) ==
  IF rule1_rejects(sql)
  THEN [valid |-> FALSE, reason |-> must_start_reason]
  ELSE IF rule2_rejects(sql)
  THEN [valid |-> FALSE, reason |-> multiple_statements_reason]
  ELSE IF rule3_keyword(sql) # 0
  THEN [valid |-> FALSE,
        reason |-> forbidden_keyword_reason(FORBIDDEN_QUERY_KEYWORDS[rule3_keyword(sql)])]
  ELSE IF rule4_rejects(sql)
  THEN [valid |-> FALSE, reason |-> cte_reason]
  ELSE IF rule5_pragma(sql) # 0
  THEN [valid |-> FALSE, reason |-> write_pragma_reason(write_pragmas[rule5_pragma(sql)])]
  ELSE [valid |-> TRUE, reason |-> None]

(***************************************************************************)
(* app.py of the top level: the validator the desktop entry point imports  *)
(***************************************************************************)
\* the inner loop of the '/*' branch and the i += 2 after it, entered at the
\* position after the opener: the position after the first '*/', or a
\* position past the end when the comment is not closed
legacy_skip_block_comment(sql, i) ==
  LET close == find(sql, <<"*", "/">>, i)
  IN  IF close # 0 THEN close + 2
      ELSE IF i < Len(sql) THEN Len(sql) + 2
      ELSE i + 2

\* one iteration of the while loop of its strip_strings_and_comments
legacy_scan_step(sql, l) ==
  LET i == l.i
      in_single_quote == l.in_single_quote
      in_double_quote == l.in_double_quote
  IN  CASE i > Len(sql) -> l
        [] i <= Len(sql) /\ ~in_single_quote /\ ~in_double_quote
             /\ slice(sql, i, 2) = <<"-", "-">> ->
             [l EXCEPT !.i = skip_line_comment(sql, i)]
        [] i <= Len(sql) /\ ~in_single_quote /\ ~in_double_quote
             /\ slice(sql, i, 2) = <<"/", "*">> ->
             [l EXCEPT !.i = legacy_skip_block_comment(sql, i + 2)]
        [] i <= Len(sql) /\ sql[i] = "'" /\ ~in_double_quote ->
             IF in_single_quote /\ i + 1 <= Len(sql) /\ sql[i + 1] = "'"
             THEN [l EXCEPT !.i = i + 2]
             ELSE [l EXCEPT !.i = i + 1, !.in_single_quote = ~in_single_quote]
        [] i <= Len(sql) /\ sql[i] = "\"" /\ ~in_single_quote /\ in_double_quote ->
             IF i + 1 <= Len(sql) /\ sql[i + 1] = "\""
             THEN [l EXCEPT !.i = i + 2]
             ELSE [l EXCEPT !.i = i + 1, !.in_double_quote = FALSE]
        [] i <= Len(sql) /\ sql[i] = "\"" /\ ~in_single_quote /\ ~in_double_quote ->
             [l EXCEPT !.i = i + 1, !.in_double_quote = TRUE]
        [] OTHER ->
             [l EXCEPT !.i = i + 1,
                       !.result = IF ~in_single_quote /\ ~in_double_quote
                                  THEN Append(l.result, i) ELSE l.result]

RECURSIVE legacy_scan(_, _, _)
legacy_scan(sql, l, n) ==
  IF n = 0 \/ l.i > Len(sql) THEN l
  ELSE IF n = 1 THEN legacy_scan_step(sql, l)
  ELSE LET half == legacy_scan(sql, l, n \div 2)
       IN  legacy_scan(sql, half, n - (n \div 2))

legacy_strip_strings_and_comments(sql) ==
  LET result == legacy_scan(sql, Locals(1, FALSE, FALSE, <<>>), Len(sql)).result
  IN  [k \in 1..Len(result) |-> sql[result[k]]]

\* the list of its Rule 3
forbidden_keywords ==
  << <<"D", "R", "O", "P">>,
     <<"D", "E", "L", "E", "T", "E">>,
     <<"I", "N", "S", "E", "R", "T">>,
     <<"U", "P", "D", "A", "T", "E">>,
     <<"A", "L", "T", "E", "R">>,
     <<"T", "R", "U", "N", "C", "A", "T", "E">>,
     <<"E", "X", "E", "C">>,
     <<"G", "R", "A", "N", "T">>,
     <<"R", "E", "V", "O", "K", "E">>,
     <<"C", "R", "E", "A", "T", "E">>,
     <<"A", "T", "T", "A", "C", "H">>,
     <<"D", "E", "T", "A", "C", "H">>,
     <<"R", "E", "P", "L", "A", "C", "E">>,
     <<"V", "A", "C", "U", "U", "M">>,
     <<"S", "A", "V", "E", "P", "O", "I", "N", "T">>,
     <<"R", "E", "L", "E", "A", "S", "E">>,
     <<"R", "E", "I", "N", "D", "E", "X">> >>

\* its Rule 2: the same lines on the text its own tokenizer returns
legacy_rule2_rejects(sql) ==
  LET sql_for_analysis == legacy_strip_strings_and_comments(sql)
      sql_trimmed      == rstrip(rstrip_chars(rstrip(sql_for_analysis), {";"}))
  IN  contains(sql_trimmed, <<";">>)

\* its Rule 3: the index in forbidden_keywords of the first keyword the for
\* loop finds in sql_upper, the whole uppercased text; 0 when it finds none
legacy_rule3_keyword(sql) ==
  LET sql_upper == sql_upper_of(sql)
  IN  first_index({k \in 1..Len(forbidden_keywords) :
                     re_search_word(forbidden_keywords[k], sql_upper)})

\* validate_sql of the top-level app.py; the lines of its Rules 1, 4 and 5
\* are those of validation.py
legacy_validate_sql(sql) ==
  IF rule1_rejects(sql)
  THEN [valid |-> FALSE, reason |-> must_start_reason]
  ELSE IF legacy_rule2_rejects(sql)
  THEN [valid |-> FALSE, reason |-> multiple_statements_reason]
  ELSE IF legacy_rule3_keyword(sql) # 0
  THEN [valid |-> FALSE,
        reason |-> forbidden_keyword_reason(forbidden_keywords[legacy_rule3_keyword(sql)])]
  ELSE IF rule4_rejects(sql)
  THEN [valid |-> FALSE, reason |-> cte_reason]
  ELSE IF rule5_pragma(sql) # 0
  THEN [valid |-> FALSE, reason |-> write_pragma_reason(write_pragmas[rule5_pragma(sql)])]
  ELSE [valid |-> TRUE, reason |-> None]

(***************************************************************************)
(* The texts validate_sql is applied to.                                   *)
(***************************************************************************)
\* statement-shaped texts: keywords, separators and span delimiters
StatementFragments ==
  { <<"S", "E", "L", "E", "C", "T">>,
    <<"w", "i", "t", "h">>,
    <<"D", "r", "o", "p">>,
    <<" ">>,
    <<"\n">>,
    <<";">>,
    <<"'">>,
    <<"-", "-">>,
    <<"/", "*">>,
    <<"*", "/">> }

\* texts in which spans sit inside and next to words
SpliceFragments ==
  { <<"S", "E", "L", "E", "C", "T", " ">>,
    <<"E", "x", "p", "l", "a", "i", "n", " ">>,
    <<"D", "r", "o", "p", " ">>,
    <<"u", "p">>,
    <<"d", "a", "t", "e">>,
    <<"/", "*", "d", "r", "o", "p", "*", "/">>,
    <<"'">>,
    <<"\"">> }

\* PRAGMA statements
PragmaFragments ==
  { <<"P", "r", "a", "g", "m", "a", " ">>,
    <<"j", "o", "u", "r", "n", "a", "l", "_", "m", "o", "d", "e">>,
    <<"t", "a", "b", "l", "e", "_", "l", "i", "s", "t">>,
    <<"m", "a", "i", "n", ".">>,
    <<" ">>,
    <<"\n">>,
    <<"-", "-">> }

FragmentFamilies == {StatementFragments, SpliceFragments, PragmaFragments}

\* the concatenation of the texts of a sequence
RECURSIVE concat(_)
concat(parts) ==
  IF parts = <<>> THEN <<>> ELSE Head(parts) \o concat(Tail(parts))

(***************************************************************************)
(* database.py                                                             *)
(***************************************************************************)
MAX_RESULT_ROWS == 2000

\* what the engine does with a statement: it yields n rows, raises an
\* sqlite3.Error with a message, raises another exception, or sets out to
\* write to the database file
Rows(n) == [kind |-> "rows", n |-> n, msg |-> <<>>]

SqliteError(msg) == [kind |-> "sqlite3.Error", n |-> 0, msg |-> msg]

OtherException == [kind |-> "Exception", n |-> 0, msg |-> <<>>]

WriteAttempt == [kind |-> "write", n |-> 0, msg |-> <<>>]

\* the engine does not come to an end of the statement: cursor.execute and
\* fetchmany run without a time limit or a progress handler
Unending == [kind |-> "unending", n |-> 0, msg |-> <<>>]

RowCounts == {0, 2, 7, MAX_RESULT_ROWS + 1, MAX_RESULT_ROWS + 2}

EngineMessages ==
  { <<"n", "o", " ", "s", "u", "c", "h", " ", "c", "o", "l", "u", "m", "n", ":", " ", "x">>,
    <<"n", "o", " ", "s", "u", "c", "h", " ", "t", "a", "b", "l", "e", ":", " ", "t">> }

EngineOutcomes ==
  {Rows(n) : n \in RowCounts} \cup {SqliteError(m) : m \in EngineMessages}
    \cup {OtherException, WriteAttempt}

\* what the engine may do with a statement: a recursive common table
\* expression can go on for ever
engine_answers(statement) ==
  EngineOutcomes
    \cup (IF contains(upper(statement), <<"R", "E", "C", "U", "R", "S", "I", "V", "E">>) THEN {Unending} ELSE {})

\* the message of the sqlite3.OperationalError for a write that the
\* connection does not allow
readonly_database ==
  <<"a", "t", "t", "e", "m", "p", "t", " ", "t", "o", " ", "w", "r", "i", "t", "e", " ",
    "a", " ", "r", "e", "a", "d", "o", "n", "l", "y", " ", "d", "a", "t", "a", "b", "a", "s", "e">>

\* a variant of get_readonly_connection that opens the file for writing and
\* leaves query_only off
get_connection_rwc(filepath) ==
  [db_filepath |-> filepath, mode |-> "rwc", query_only |-> FALSE]

\* sqlite3.connect(db_filepath) of build_schema_context: the path is no URI,
\* so the file is opened for reading and writing and created when it is
\* missing, and no pragma is set
sqlite3_connect(filepath) ==
  [db_filepath |-> filepath, mode |-> "rwc", query_only |-> FALSE]

\* the connection: the mode of the file URI, and whether PRAGMA query_only
\* was set ON
get_readonly_connection(filepath) ==
  [db_filepath |-> filepath, mode |-> "ro", query_only |-> TRUE]

\* the connection lets a statement write to the file
writable(conn) == conn.mode # "ro" /\ ~conn.query_only

\* cursor.execute on conn of a statement the engine answers with answer: a
\* write is carried out on a writable connection and yields no rows, and is
\* refused with an sqlite3.Error on any other
cursor_execute(conn, answer) ==
  IF answer.kind # "write" THEN answer
  ELSE IF writable(conn) THEN Rows(0)
  ELSE SqliteError(readonly_database)

\* a variant of fetchmany that fetches every row, as cursor.fetchall does
fetchmany_all(n, size) == [k \in 1..n |-> k]

\* cursor.fetchmany(size) on a cursor that yields n rows: the rows are the
\* engine's rows 1..n, in its order
fetchmany(n, size) == [k \in 1..Min(n, size) |-> k]

\* execute_and_parse_query(filepath, statement) when the engine answers the
\* statement with answer: the connection it opened, the text it executed,
\* what cursor.execute did, whether the file was written, the number of rows
\* fetched from the cursor, and the rows returned (none when it raises)
execute_and_parse_query(filepath, statement, answer) ==
  LET cleaned == strip(rstrip_chars(statement, {";"}))
      conn    == get_readonly_connection(filepath)
      outcome == cursor_execute(conn, answer)
      results == IF outcome.kind = "rows"
                 THEN fetchmany(outcome.n, MAX_RESULT_ROWS + 1) ELSE <<>>
  IN  [conn |-> conn, cleaned |-> cleaned, outcome |-> outcome,
       written |-> answer.kind = "write" /\ writable(conn),
       fetched |-> Len(results),
       rows |-> slice(results, 1, MAX_RESULT_ROWS)]      \* results[:MAX_RESULT_ROWS]

\* no call of execute_and_parse_query yet
NoRun ==
  [conn |-> [db_filepath |-> <<>>, mode |-> "none", query_only |-> FALSE],
   cleaned |-> <<>>, outcome |-> [kind |-> "none", n |-> 0, msg |-> <<>>],
   written |-> FALSE, fetched |-> 0, rows |-> <<>>]

(***************************************************************************)
(* llm.py                                                                  *)
(***************************************************************************)
\* the values of the JSON body of a reply
JsonObject(fields) == [type |-> "object", fields |-> fields, items |-> <<>>, value |-> <<>>]

JsonArray(items) == [type |-> "array", fields |-> <<>>, items |-> items, value |-> <<>>]

JsonString(value) == [type |-> "string", fields |-> <<>>, items |-> <<>>, value |-> value]

JsonNumber(n) == [type |-> "number", fields |-> <<>>, items |-> <<>>, value |-> <<n>>]

JsonBool(b) == [type |-> "bool", fields |-> <<>>, items |-> <<>>, value |-> <<b>>]

JsonNull == [type |-> "null", fields |-> <<>>, items |-> <<>>, value |-> <<>>]

\* bool(v) of Python
truthy(v) ==
  CASE v.type = "object" -> DOMAIN v.fields # {}
    [] v.type = "array"  -> v.items # <<>>
    [] v.type = "string" -> v.value # <<>>
    [] v.type = "number" -> v.value[1] # 0
    [] v.type = "bool"   -> v.value[1]
    [] OTHER             -> FALSE

\* d.get(key, default) of a dict
dict_get(d, key, default) == IF key \in DOMAIN d.fields THEN d.fields[key] ELSE default

\* what evaluating an expression gives: a value, or an exception
ReturnValue(value) == [raised |-> "", value |-> value]

Raised(exception) == [raised |-> exception, value |-> <<>>]

\* get_provider_config: the settings of Ollama for provider 'ollama', those
\* of LM Studio for every other provider
get_provider_config(provider) ==
  IF provider = "ollama"
  THEN [provider |-> "ollama", label |-> "Ollama",
        hint |-> "Is Ollama running? (ollama serve)"]
  ELSE [provider |-> "lmstudio", label |-> "LM Studio",
        hint |-> "Is the server running at http://localhost:1234?"]

\* _extract_llm_content: message.content of an Ollama reply, and
\* choices[0].message.content of an LM Studio reply, '' for no choices; a
\* .get on a value that is not a dict raises AttributeError
extract_llm_content(config, data) ==
  IF data.type # "object" THEN Raised("AttributeError")
  ELSE IF config.provider = "ollama"
  THEN LET message == dict_get(data, "message", JsonObject(<<>>))
       IN  IF message.type # "object" THEN Raised("AttributeError")
           ELSE ReturnValue(dict_get(message, "content", JsonString(<<>>)).value)
  ELSE LET choices == dict_get(data, "choices", JsonArray(<<>>))
       IN  IF choices.type # "array" THEN Raised("TypeError")
           ELSE IF choices.items = <<>> THEN ReturnValue(<<>>)
           ELSE IF choices.items[1].type # "object" THEN Raised("AttributeError")
           ELSE LET message == dict_get(choices.items[1], "message", JsonObject(<<>>))
                IN  IF message.type # "object" THEN Raised("AttributeError")
                    ELSE ReturnValue(dict_get(message, "content", JsonString(<<>>)).value)

\* what happens to the request call_llm_non_streaming posts: the provider
\* does not answer within the timeout, cannot be reached, answers with an
\* error status, answers with a body that is not JSON, or replies with data
ProviderTimeout == [kind |-> "timeout", data |-> JsonObject(<<>>)]

ProviderUnreachable == [kind |-> "unreachable", data |-> JsonObject(<<>>)]

ProviderHttpError == [kind |-> "http_error", data |-> JsonObject(<<>>)]

ProviderMalformedBody == [kind |-> "malformed", data |-> JsonObject(<<>>)]

ProviderReply(data) == [kind |-> "reply", data |-> data]

NoLlmCall == [kind |-> "none", data |-> JsonObject(<<>>)]

\* the body of the try statement of call_llm_non_streaming: requests.post
\* with timeout=30, raise_for_status, r.json() and _extract_llm_content
post_and_extract(provider, provider_outcome) ==
  LET config == get_provider_config(provider)
  IN  CASE provider_outcome.kind = "timeout"     -> Raised("Timeout")
        [] provider_outcome.kind = "unreachable" -> Raised("ConnectionError")
        [] provider_outcome.kind = "http_error"  -> Raised("HTTPError")
        [] provider_outcome.kind = "malformed"   -> Raised("JSONDecodeError")
        [] OTHER -> extract_llm_content(config, provider_outcome.data)

\* a variant of call_llm_non_streaming without its except clause
call_llm_non_streaming_uncaught(provider, provider_outcome) ==
  post_and_extract(provider, provider_outcome)

\* call_llm_non_streaming: what the try body returns, and '' for every
\* exception it raises
call_llm_non_streaming(provider, provider_outcome) ==
  IF post_and_extract(provider, provider_outcome).raised # ""
  THEN ReturnValue(<<>>)
  ELSE post_and_extract(provider, provider_outcome)

\* ---- stream_llm_response ----
\* the two markers of the chunk that ends a stream, each one element of a text
END_OF_STREAM == "<|END_OF_STREAM|>"

TOKEN_USAGE == "<|TOKEN_USAGE|>"

\* json.dumps(v), one element of a text: the rendering of the value stands
\* for its JSON text, different values have different texts
json_dumps(v) == <<ToString(v)>>

\* a line of r.iter_lines(): empty, bytes that are not UTF-8, or a text
\* that may start with 'data: ' and goes on with [DONE], with JSON or with
\* something that is not JSON
EmptyLine == [bytes |-> "empty", data_prefix |-> FALSE, payload |-> "", json |-> JsonNull]

UndecodableLine ==
  [bytes |-> "undecodable", data_prefix |-> FALSE, payload |-> "", json |-> JsonNull]

DoneLine == [bytes |-> "text", data_prefix |-> TRUE, payload |-> "[DONE]", json |-> JsonNull]

NotJsonLine(data_prefix) ==
  [bytes |-> "text", data_prefix |-> data_prefix, payload |-> "not json", json |-> JsonNull]

JsonLine(data_prefix, json) ==
  [bytes |-> "text", data_prefix |-> data_prefix, payload |-> "json", json |-> json]

\* what the loop body does with one line: the chunks it yields, the two
\* locals after it, and the exception that leaves the loop, "" when none
LineStep(raised, yielded, full, usage) ==
  [raised |-> raised, yielded |-> yielded, full_response |-> full, token_usage |-> usage]

\* the ollama branch for a line json.loads has parsed to data: a .get on a
\* value that is not a dict raises AttributeError, and adding to
\* full_response a content that is not a str raises TypeError; a content is
\* yielded before done is read
ollama_line(data, full, usage) ==
  IF data.type # "object" THEN LineStep("AttributeError", <<>>, full, usage)
  ELSE LET message == dict_get(data, "message", JsonObject(<<>>))
       IN  IF message.type # "object" THEN LineStep("AttributeError", <<>>, full, usage)
           ELSE LET content == dict_get(message, "content", JsonString(<<>>))
                    yielded == IF truthy(content) THEN <<content.value>> ELSE <<>>
                    added   == IF truthy(content) THEN full \o content.value ELSE full
                    prompt_eval_count == dict_get(data, "prompt_eval_count", JsonNumber(0))
                    eval_count == dict_get(data, "eval_count", JsonNumber(0))
                IN  IF truthy(content) /\ content.type # "string"
                    THEN LineStep("TypeError", <<>>, full, usage)
                    ELSE IF ~truthy(dict_get(data, "done", JsonBool(FALSE)))
                    THEN LineStep("", yielded, added, usage)
                    ELSE IF prompt_eval_count.type # "number" \/ eval_count.type # "number"
                    THEN LineStep("TypeError", yielded, added, usage)
                    ELSE LineStep("", yielded, added,
                           JsonObject([prompt_tokens |-> prompt_eval_count,
                                       completion_tokens |-> eval_count,
                                       total_tokens |->
                                         JsonNumber(prompt_eval_count.value[1]
                                                      + eval_count.value[1])]))

\* the other branch for a line whose text after 'data: ' json.loads has
\* parsed to json_data: 'usage' in json_data raises TypeError on a number,
\* on a boolean and on None, and is False on the texts and the lists of
\* Lines; json_data['choices'][0] raises KeyError on a dict and TypeError on
\* a number, and is a str, without .get, on a text
lmstudio_line(json_data, full, usage) ==
  IF json_data.type \in {"number", "bool", "null"}
  THEN LineStep("TypeError", <<>>, full, usage)
  ELSE IF json_data.type # "object" THEN LineStep("", <<>>, full, usage)
  ELSE LET assigned == IF "usage" \in DOMAIN json_data.fields
                       THEN json_data.fields["usage"] ELSE usage
           choices  == dict_get(json_data, "choices", JsonArray(<<>>))
       IN  IF ~truthy(choices) THEN LineStep("", <<>>, full, assigned)
           ELSE IF choices.type = "object" THEN LineStep("KeyError", <<>>, full, assigned)
           ELSE IF choices.type = "string"
           THEN LineStep("AttributeError", <<>>, full, assigned)
           ELSE IF choices.type # "array" THEN LineStep("TypeError", <<>>, full, assigned)
           ELSE IF choices.items[1].type # "object"
           THEN LineStep("AttributeError", <<>>, full, assigned)
           ELSE LET delta == dict_get(choices.items[1], "delta", JsonObject(<<>>))
                IN  IF delta.type # "object"
                    THEN LineStep("AttributeError", <<>>, full, assigned)
                    ELSE LET content_chunk == dict_get(delta, "content", JsonString(<<>>))
                         IN  IF ~truthy(content_chunk)
                             THEN LineStep("", <<>>, full, assigned)
                             ELSE IF content_chunk.type # "string"
                             THEN LineStep("TypeError", <<>>, full, assigned)
                             ELSE LineStep("", <<content_chunk.value>>,
                                           full \o content_chunk.value, assigned)

\* the body of the loop over r.iter_lines(): an empty line is skipped;
\* decoding bytes that are not UTF-8 raises UnicodeDecodeError in both
\* branches; a line json.loads cannot parse is skipped (for Ollama, so is
\* every line that starts with 'data: '), and so is, in the other branch,
\* a line without 'data: ' and the line data: [DONE]
stream_line(config, line, full, usage) ==
  IF line.bytes = "empty" THEN LineStep("", <<>>, full, usage)
  ELSE IF line.bytes = "undecodable" THEN LineStep("UnicodeDecodeError", <<>>, full, usage)
  ELSE IF config.provider = "ollama"
  THEN IF line.data_prefix \/ line.payload # "json"
       THEN LineStep("", <<>>, full, usage)
       ELSE ollama_line(line.json, full, usage)
  ELSE IF ~line.data_prefix THEN LineStep("", <<>>, full, usage)
  ELSE IF line.payload = "[DONE]" THEN LineStep("", <<>>, full, usage)
  ELSE IF line.payload # "json" THEN LineStep("", <<>>, full, usage)
  ELSE lmstudio_line(line.json, full, usage)

\* the chunk yielded after the last line
end_chunk(full, usage) ==
  IF truthy(usage)
  THEN <<END_OF_STREAM>> \o full \o <<TOKEN_USAGE>> \o json_dumps(usage)
  ELSE <<END_OF_STREAM>> \o full

\* the exceptions of requests the three except clauses catch
TransportErrors == {"Timeout", "ConnectionError", "RequestException"}

\* the chunk an except clause yields
error_chunk(config, exception) ==
  CASE exception = "Timeout" ->
         <<"Error: ", config.label, " request timed out. ", config.hint>>
    [] exception = "ConnectionError" ->
         <<"Error: ", "Cannot connect to ", config.label, ". ", config.hint>>
    [] OTHER -> <<config.label, " Error: ", "str(e)">>

\* ---- build_schema_context ----
\* a value of a row: None for NULL, and str(v) of every other value
null_value == [type |-> "null", str |-> <<>>]

text_value(text) == [type |-> "text", str |-> text]

integer_value(numerals) == [type |-> "integer", str |-> numerals]

\* a table of a database file: its name, the sql column of its sqlite_master
\* row (<<>> when it is NULL) and whether sqlite3 can decode that column
\* as UTF-8, its rows of PRAGMA foreign_key_list, its column names, its rows,
\* and whether SELECT * on it succeeds
Table(name, create_sql, decodable, foreign_keys, columns, rows, selectable) ==
  [name |-> name, create_sql |-> create_sql, decodable |-> decodable,
   foreign_keys |-> foreign_keys, columns |-> columns, rows |-> rows,
   selectable |-> selectable]

\* a row of PRAGMA foreign_key_list: fk[2], fk[3] and fk[4]
ForeignKey(table, from, to) == [table |-> table, from |-> from, to |-> to]

\* the character U+2192 of the foreign key descriptor
arrow == "U+2192"

\* sep.join(parts)
RECURSIVE join(_, _)
join(sep, parts) ==
  IF parts = <<>> THEN <<>>
  ELSE IF Len(parts) = 1 THEN parts[1]
  ELSE parts[1] \o sep \o join(sep, Tail(parts))

\* SampleChars is [:50] of the rendering of a value, SampleRows the LIMIT of
\* the sample query
SampleChars == 50

SampleRows == 3

\* a variant of render_value that cuts a long value to 50 characters without
\* marking it
render_value_cut(v) ==
  IF v.type = "null" THEN <<"N", "U", "L", "L">> ELSE slice(v.str, 1, SampleChars)

\* str(v)[:50] + '...' if v is not None and len(str(v)) > 50
\* else 'NULL' if v is None else str(v)
render_value(v) ==
  IF v.type # "null" /\ Len(v.str) > SampleChars
  THEN slice(v.str, 1, SampleChars) \o <<".", ".", ".">>
  ELSE IF v.type = "null" THEN <<"N", "U", "L", "L">>
  ELSE v.str

\* '|'.join(... for v in row)
render_row(row) == join(<<"|">>, [k \in DOMAIN row |-> render_value(row[k])])

\* SELECT * FROM "table" LIMIT 3
sample_query(table) == SubSeq(table.rows, 1, Min(Len(table.rows), SampleRows))

\* the parts build_schema_context appends for one table
ddl_parts(table) ==
  IF table.create_sql # <<>> THEN <<table.create_sql \o <<";", "\n">>>> ELSE <<>>

fk_parts(table) ==
  IF table.foreign_keys = <<>> THEN <<>>
  ELSE [k \in DOMAIN table.foreign_keys |->
          <<" ", " ", "-", "-", " ", "F", "K", ":", " ">> \o table.name \o <<".">> \o table.foreign_keys[k].from
            \o <<" ", arrow, " ">> \o table.foreign_keys[k].table \o <<".">>
            \o table.foreign_keys[k].to]
       \o << <<>> >>

sample_parts(table) ==
  IF ~table.selectable \/ sample_query(table) = <<>> THEN <<>>
  ELSE << <<"-", "-", " ">> \o table.name \o <<" ", "s", "a", "m", "p", "l", "e", " ", "(">>
            \o join(<<" ", "|", " ">>, table.columns) \o <<")", ":">> >>
       \o [k \in DOMAIN sample_query(table) |-> render_row(sample_query(table)[k])]
       \o << <<>> >>

table_parts(table, include_samples) ==
  ddl_parts(table) \o fk_parts(table)
    \o (IF include_samples THEN sample_parts(table) ELSE <<>>)

RECURSIVE tables_parts(_, _)
tables_parts(tables, include_samples) ==
  IF tables = <<>> THEN <<>>
  ELSE table_parts(Head(tables), include_samples)
         \o tables_parts(Tail(tables), include_samples)

\* the character U+0060, which a TLA+ string cannot hold
grave == "U+0060"

\* the character U+2014, which a TLA+ string cannot hold
em_dash == "U+2014"

column_hint ==
  <<"C", "h", "e", "c", "k", " ", "c", "o", "l", "u", "m", "n", " ", "n", "a", "m", "e", "s", " ", "a", "g", "a", "i", "n", "s", "t", " ", "t", "h", "e", " ", "s", "c", "h", "e", "m", "a", " ", em_dash, " ", "t", "h", "e", " ", "c", "o", "l", "u", "m", "n", " ", "m", "a", "y", " ", "b", "e", " ", "m", "i", "s", "s", "p", "e", "l", "l", "e", "d", " ", "o", "r", " ", "b", "e", "l", "o", "n", "g", " ", "t", "o", " ", "a", " ", "d", "i", "f", "f", "e", "r", "e", "n", "t", " ", "t", "a", "b", "l", "e", ".">>

table_hint ==
  <<"C", "h", "e", "c", "k", " ", "t", "a", "b", "l", "e", " ", "n", "a", "m", "e", "s", " ", "a", "g", "a", "i", "n", "s", "t", " ", "t", "h", "e", " ", "s", "c", "h", "e", "m", "a", " ", em_dash, " ", "t", "h", "e", " ", "t", "a", "b", "l", "e", " ", "m", "a", "y", " ", "b", "e", " ", "m", "i", "s", "s", "p", "e", "l", "l", "e", "d", ".">>

syntax_hint == <<"F", "i", "x", " ", "t", "h", "e", " ", "S", "Q", "L", "i", "t", "e", " ", "s", "y", "n", "t", "a", "x", " ", "e", "r", "r", "o", "r", ".">>

generic_hint == <<"F", "i", "x", " ", "t", "h", "e", " ", "e", "r", "r", "o", "r", " ", "b", "a", "s", "e", "d", " ", "o", "n", " ", "t", "h", "e", " ", "m", "e", "s", "s", "a", "g", "e", " ", "b", "e", "l", "o", "w", ".">>

\* a variant of correction_hint that looks for the missing table first
correction_hint_table_first(error_msg) ==
  LET error_upper == upper(error_msg)
  IN  IF contains(error_upper, <<"N", "O", " ", "S", "U", "C", "H", " ", "T", "A", "B", "L", "E">>) THEN table_hint
      ELSE IF contains(error_upper, <<"N", "O", " ", "S", "U", "C", "H", " ", "C", "O", "L", "U", "M", "N">>) THEN column_hint
      ELSE IF contains(error_upper, <<"S", "Y", "N", "T", "A", "X", " ", "E", "R", "R", "O", "R">>) \/ contains(error_upper, <<"N", "E", "A", "R">>)
      THEN syntax_hint
      ELSE generic_hint

\* the if/elif chain of build_error_correction_prompt on str(error_msg).upper()
correction_hint(error_msg) ==
  LET error_upper == upper(error_msg)
  IN  IF contains(error_upper, <<"N", "O", " ", "S", "U", "C", "H", " ", "C", "O", "L", "U", "M", "N">>) THEN column_hint
      ELSE IF contains(error_upper, <<"N", "O", " ", "S", "U", "C", "H", " ", "T", "A", "B", "L", "E">>) THEN table_hint
      ELSE IF contains(error_upper, <<"S", "Y", "N", "T", "A", "X", " ", "E", "R", "R", "O", "R">>) \/ contains(error_upper, <<"N", "E", "A", "R">>)
      THEN syntax_hint
      ELSE generic_hint

\* the opening of the prompt, and what follows the hint, the error, the
\* failed statement and the schema context
prompt_opening == <<"T", "h", "e", " ", "f", "o", "l", "l", "o", "w", "i", "n", "g", " ", "S", "Q", "L", " ", "q", "u", "e", "r", "y", " ", "f", "a", "i", "l", "e", "d", ".", " ">>

prompt_error == <<"\n", "\n", "E", "r", "r", "o", "r", ":", " ">>

prompt_failed_query == <<"\n", "\n", "F", "a", "i", "l", "e", "d", " ", "q", "u", "e", "r", "y", ":", "\n", grave, grave, grave, "s", "q", "l", "\n">>

prompt_schema == <<"\n", grave, grave, grave, "\n", "\n">>

prompt_closing ==
  <<"\n", "\n", "O", "u", "t", "p", "u", "t", " ", "O", "N", "L", "Y", " ", "t", "h", "e", " ", "c", "o", "r", "r", "e", "c", "t", "e", "d", " ", "S", "Q", "L", " ", "q", "u", "e", "r", "y", " ", "i", "n", " ", "a", " ", grave, grave, grave, "s", "q", "l", " ", "c", "o", "d", "e", " ", "b", "l", "o", "c", "k", ".", " ", "N", "o", " ", "e", "x", "p", "l", "a", "n", "a", "t", "i", "o", "n", " ", "n", "e", "e", "d", "e", "d", ".">>

\* the f-string build_error_correction_prompt returns
build_error_correction_prompt(error_msg, failed_sql, context) ==
  prompt_opening \o correction_hint(error_msg) \o prompt_error \o error_msg
    \o prompt_failed_query \o failed_sql \o prompt_schema \o context \o prompt_closing

\* build_schema_context of the file at db_filepath, whose user tables are
\* tables: '' without a path; sqlite3.OperationalError when fetchall cannot
\* decode the sql column of a table; else the parts joined by newlines
build_schema_context(db_filepath, include_samples, tables) ==
  IF db_filepath = <<>> THEN ReturnValue(<<>>)
  ELSE IF \E k \in DOMAIN tables : ~tables[k].decodable
  THEN Raised("sqlite3.OperationalError")
  ELSE ReturnValue(join(<<"\n">>, <<<<"D", "a", "t", "a", "b", "a", "s", "e", " ", "S", "c", "h", "e", "m", "a", ":", "\n">>>> \o tables_parts(tables, include_samples)))

(***************************************************************************)
(* app.py: the session and the execute_sql request                         *)
(***************************************************************************)
\* a message of chat_history, with its role and its id; the three result
\* keys are absent until update_chat_history_with_results sets them, and the
\* key note until add_note does
Message(role, id) ==
  [role |-> role, id |-> id, has_results |-> FALSE, sql_query |-> <<>>,
   query_results_preview |-> <<>>, total_results |-> 0,
   has_note |-> FALSE, note |-> <<>>]

\* the chat_history of a session that holds n messages in the initial state,
\* of the user and of the assistant in turn: their ids were drawn before it
\* and are the numbers up to 0, those drawn after it count from 1
earlier_history(n) ==
  [k \in 1..n |-> Message(IF k % 2 = 1 THEN "user" ELSE "assistant", k - n)]

\* the most messages save_assistant_message keeps in the session
MAX_STORED_MESSAGES == 100

\* a variant of update_chat_history_with_results that sets the keys of the
\* last message whatever its role
update_chat_history_any_role(history, statement, results_dict) ==
  IF history # <<>>
  THEN [history EXCEPT ![Len(history)] =
          [@ EXCEPT !.has_results = TRUE,
                    !.sql_query = statement,
                    !.query_results_preview = slice(results_dict, 1, 5),
                    !.total_results = Len(results_dict)]]
  ELSE history

\* update_chat_history_with_results: the keys sql_query,
\* query_results_preview and total_results of the last message, when it is
\* a message of the assistant
update_chat_history_with_results(history, statement, results_dict) ==
  IF history # <<>> /\ history[Len(history)].role = "assistant"
  THEN [history EXCEPT ![Len(history)] =
          [@ EXCEPT !.has_results = TRUE,
                    !.sql_query = statement,
                    !.query_results_preview = slice(results_dict, 1, 5),   \* results_dict[:5]
                    !.total_results = Len(results_dict)]]
  ELSE history

\* re.search on the pattern of a fenced sql block, three U+0060 and sql and
\* a newline, ([\s\S]*?), a newline and three U+0060: whether there is a
\* match and the text of group 1
sql_fence_open == <<grave, grave, grave, "s", "q", "l", "\n">>

sql_fence_close == <<"\n", grave, grave, grave>>

re_search_sql_block(text) ==
  LET open  == find(text, sql_fence_open, 1)
      close == IF open = 0 THEN 0
               ELSE find(text, sql_fence_close, open + Len(sql_fence_open))
  IN  IF close = 0 THEN [match |-> FALSE, group1 |-> <<>>]
      ELSE [match |-> TRUE,
            group1 |-> SubSeq(text, open + Len(sql_fence_open), close - 1)]

\* a statement that validate_sql accepts and that the engine never finishes
count_forever ==
  <<"W", "I", "T", "H", " ", "R", "E", "C", "U", "R", "S", "I", "V", "E", " ", "r", "(", "n", ")", " ", "A", "S", " ", "(", "S", "E", "L", "E", "C", "T", " ", "1", " ", "U", "N", "I", "O", "N", " ", "A", "L", "L", " ", "S", "E", "L", "E", "C", "T", " ", "n", "+", "1", " ", "F", "R", "O", "M", " ", "r", ")", " ", "S", "E", "L", "E", "C", "T", " ", "c", "o", "u", "n", "t", "(", "*", ")", " ", "F", "R", "O", "M", " ", "r">>

\* the statements a client submits
Statements ==
  { <<>>,
    <<"S", "E", "L", "E", "C", "T", " ", "1", ";">>,
    <<"S", "E", "L", "E", "C", "T", " ", "x">>,
    <<"D", "r", "o", "p", " ", "t">>,
    <<"S", "E", "L", "E", "C", "T", " ", "1", ";", "D", "r", "o", "p", " ", "t">>,
    count_forever }

\* request.json: no body (an empty mapping) or a body with the key sql_query
RequestBodies == {<<>>} \cup {[sql_query |-> s] : s \in Statements}

\* the content of a reply of the model
Fenced(statement) == sql_fence_open \o statement \o sql_fence_close

LlmReplies ==
  { <<>>,
    <<"S", "o", "r", "r", "y", ".">>,
    Fenced(<<"S", "E", "L", "E", "C", "T", " ", "2">>),
    <<"T", "r", "y", ":", "\n">> \o Fenced(<<" ", "S", "E", "L", "E", "C", "T", " ", "2", ";", "\n">>),
    Fenced(<<"D", "r", "o", "p", " ", "t">>),
    \* a block whose closing fence does not start a line, then a second block
    sql_fence_open \o <<"S", "E", "L", "E", "C", "T", " ", "2", grave, grave, grave>>
      \o <<"\n">> \o Fenced(<<"S", "E", "L", "E", "C", "T", " ", "3">>),
    Fenced(count_forever) }

\* the bodies of a reply: the shape of LM Studio around each content, the
\* shape of Ollama around two of them, an LM Studio reply without choices, an empty
\* object, a message without content, and a body that is an array
ollama_reply(content) == JsonObject([message |-> JsonObject([content |-> JsonString(content)])])

lmstudio_reply(content) ==
  JsonObject([choices |->
    JsonArray(<<JsonObject([message |-> JsonObject([content |-> JsonString(content)])])>>)])

ReplyBodies ==
  {lmstudio_reply(content) : content \in LlmReplies}
    \cup { ollama_reply(<<"S", "o", "r", "r", "y", ".">>),
           ollama_reply(Fenced(<<"S", "E", "L", "E", "C", "T", " ", "2">>)) }
    \cup { JsonObject([choices |-> JsonArray(<<>>)]),
           JsonObject(<<>>),
           JsonObject([message |-> JsonObject(<<>>)]),
           JsonArray(<<>>) }

\* the outcomes of the provider request
ProviderOutcomes ==
  {ProviderTimeout, ProviderUnreachable, ProviderHttpError, ProviderMalformedBody}
    \cup {ProviderReply(data) : data \in ReplyBodies}

\* a response is the HTTP status with the keys of the JSON body, and no
\* other key: jsonify({'error': error}), status
Response(status, error) == [status |-> status, error |-> error]

NoResponse == [status |-> 0]

\* a variant of Found with the three keys of a retried request
Found_with_retry_keys(results_dict) ==
  [status |-> 200, response |-> Reason("Found {} results.", Len(results_dict)),
   query_results |-> results_dict,
   retried |-> FALSE, original_sql |-> <<>>, corrected_sql |-> <<>>]

\* jsonify({'response': f"Found {len(results_dict)} results.",
\*          'query_results': results_dict})
Found(results_dict) ==
  [status |-> 200, response |-> Reason("Found {} results.", Len(results_dict)),
   query_results |-> results_dict]

\* the same with 'retried', 'original_sql' and 'corrected_sql'
FoundAfterRetry(results_dict, original, corrected) ==
  [status |-> 200, response |-> Reason("Found {} results.", Len(results_dict)),
   query_results |-> results_dict,
   retried |-> TRUE, original_sql |-> original, corrected_sql |-> corrected]

\* jsonify({'error': f"SQL Error: {e}"}), 500
SqlError(e) == Response(500, Reason("SQL Error: {}", e))

\* an entry of the request's record of calls
Call(op, statement) == [op |-> op, statement |-> statement]

VARIABLES
  sql,            \* the text handed to validate_sql
  verdict,        \* its (valid, reason) result
  vpc,            \* "call" before validate_sql ran, "return" after
  sql_for_analysis, \* what strip_strings_and_comments returned for sql
  db_filepath,    \* session['db_filepath'], <<>> when no database is loaded
  chat_history,   \* session['chat_history']
  pc,             \* where the execute_sql request in flight stands
  sql_query,      \* its submitted statement
  e,              \* the message of the sqlite3.Error of its first execution
  llm_response,   \* what call_llm_non_streaming returned
  corrected_sql,  \* the statement extracted from llm_response
  response,       \* the response it returned
  calls,          \* the calls it made to validate_sql, execute_and_parse_query
                  \* and call_llm_non_streaming, in order
  run,            \* its last call of execute_and_parse_query
  provider_outcome, \* what happened to its request to the model provider
  database,       \* the contents of the loaded file: "uploaded" until a
                  \* statement writes to it, "modified" from then on
  schema_context_cache, \* session['schema_context_cache'], <<>> when absent
  schema_context, \* the schema context of the correction prompt of the request
  LLM_PROVIDER,   \* the provider of the environment of the process
  disk,           \* the database file at each path of UPLOAD_FOLDER
  include_samples, \* the argument of a build_schema_context call
  built,          \* what that call returned or raised
  inflight,       \* the execute_sql requests that run at the same time
  cursors,        \* the result set behind the cursor of each connection
  opened,         \* the number of connections opened so far
  correction_prompt, \* what build_error_correction_prompt returned
  uuids,          \* the number of uuid4 values drawn since the initial state
  legacy_verdict, \* the (valid, reason) result of validate_sql of the top-level app.py
  connections,    \* the connections the request opened on the file at db_filepath
  chat_provider,  \* the provider of the last chat_stream request, "" before it
  correction_provider, \* the provider the correction request was sent to
  stream_pc,      \* where the run of stream_llm_response stands
  full_response,  \* its local full_response
  token_usage,    \* its local token_usage
  iter_lines,     \* the lines r.iter_lines() has given it
  chunks          \* the chunks it has yielded, in order

validator_vars == <<sql, verdict, vpc, sql_for_analysis>>

session_vars == <<db_filepath, chat_history, schema_context_cache>>

request_vars ==
  <<pc, sql_query, e, llm_response, corrected_sql, response, calls, run, provider_outcome,
    schema_context>>

environment_vars == <<LLM_PROVIDER, disk>>

builder_vars == <<include_samples, built>>

executor_vars == <<inflight, cursors, opened>>

stream_vars == <<stream_pc, full_response, token_usage, iter_lines, chunks>>

further_vars ==
  <<correction_prompt, uuids, legacy_verdict, connections, chat_provider,
    correction_provider, stream_vars>>

vars ==
  <<validator_vars, session_vars, request_vars, database, environment_vars, builder_vars,
    executor_vars, further_vars>>

\* the file at a path of UPLOAD_FOLDER: whether it exists, and its user tables
File(tables) == [exists |-> TRUE, tables |-> tables]

NoFile == [exists |-> FALSE, tables |-> <<>>]

\* no request runs beside the one request of the session
NoExecutor ==
  /\ inflight = <<>>
  /\ cursors = <<>>
  /\ opened = 0

\* the token_usage of stream_llm_response before a line set it
NoUsage == JsonNull

\* nothing else has run or been recorded
AtRest ==
  /\ correction_prompt = <<>>
  /\ uuids = 0
  /\ legacy_verdict = [valid |-> FALSE, reason |-> None]
  /\ connections = <<>>
  /\ chat_provider = ""
  /\ correction_provider = ""
  /\ stream_pc = "off"
  /\ full_response = <<>>
  /\ token_usage = NoUsage
  /\ iter_lines = <<>>
  /\ chunks = <<>>

\* before build_schema_context is called
NoBuild == [raised |-> "not called", value |-> <<>>]

\* no session, no upload and no request: the state around a function that is
\* applied on its own
Standalone ==
  /\ db_filepath = <<>>
  /\ chat_history = <<>>
  /\ schema_context_cache = <<>>
  /\ pc = "off"
  /\ sql_query = <<>>
  /\ e = <<>>
  /\ llm_response = <<>>
  /\ corrected_sql = <<>>
  /\ response = NoResponse
  /\ calls = <<>>
  /\ run = NoRun
  /\ provider_outcome = NoLlmCall
  /\ schema_context = <<>>
  /\ database = "uploaded"
  /\ LLM_PROVIDER = "lmstudio"
  /\ disk = <<>>

(***************************************************************************)
(* validate_sql applied to one text                                        *)
(***************************************************************************)
\* the text is a concatenation of at most MaxFragments fragments of one family
InitValidate ==
  /\ \E fragments \in FragmentFamilies :
        \E n \in 0..MaxFragments :
           \E parts \in [1..n -> fragments] : sql = concat(parts)
  /\ verdict = [valid |-> FALSE, reason |-> None]
  /\ vpc = "call"
  /\ sql_for_analysis = <<>>
  /\ Standalone
  /\ include_samples = TRUE
  /\ built = NoBuild
  /\ NoExecutor
  /\ AtRest

Validate ==
  /\ vpc = "call"
  /\ verdict' = validate_sql(sql)
  /\ vpc' = "return"
  /\ UNCHANGED <<sql, sql_for_analysis, session_vars, request_vars, database,
                 environment_vars, builder_vars, executor_vars, further_vars>>

NextValidate == Validate

SpecValidate == InitValidate /\ [][NextValidate]_vars

(***************************************************************************)
(* strip_strings_and_comments applied to one text                          *)
(***************************************************************************)
\* the characters the scan tells apart: the two quotes, the characters of
\* the comment delimiters, the newline that ends a line comment, and a
\* character of none of these kinds
ScanCharacters == {"'", "\"", "-", "/", "*", "\n", "a"}

\* the text is any text of at most MaxCharacters of these characters
InitStrip ==
  /\ \E n \in 0..MaxCharacters : sql \in [1..n -> ScanCharacters]
  /\ verdict = [valid |-> FALSE, reason |-> None]
  /\ vpc = "call"
  /\ sql_for_analysis = <<>>
  /\ Standalone
  /\ include_samples = TRUE
  /\ built = NoBuild
  /\ NoExecutor
  /\ AtRest

Strip ==
  /\ vpc = "call"
  /\ sql_for_analysis' = strip_strings_and_comments(sql)
  /\ vpc' = "return"
  /\ UNCHANGED <<sql, verdict, session_vars, request_vars, database,
                 environment_vars, builder_vars, executor_vars, further_vars>>

NextStrip == Strip

SpecStrip == InitStrip /\ [][NextStrip]_vars

(***************************************************************************)
(* validate_sql applied to a text with comment lines                       *)
(***************************************************************************)
\* the opener of a line comment, whitespace, the start of a statement of
\* each kind that a later rule looks at, and the rest of a statement
CommentFragments ==
  { <<"-", "-">>,
    <<" ">>,
    <<"\n">>,
    <<"x">>,
    <<"S", "E", "L", "E", "C", "T", " ", "1">>,
    <<"W", "i", "t", "h", " ", "x">>,
    <<"P", "r", "a", "g", "m", "a", " ", "j", "o", "u", "r", "n", "a", "l", "_", "m", "o", "d", "e">> }

\* the text is a concatenation of at most MaxFragments of these fragments
InitComments ==
  /\ \E n \in 0..MaxFragments :
        \E parts \in [1..n -> CommentFragments] : sql = concat(parts)
  /\ verdict = [valid |-> FALSE, reason |-> None]
  /\ vpc = "call"
  /\ sql_for_analysis = <<>>
  /\ Standalone
  /\ include_samples = TRUE
  /\ built = NoBuild
  /\ NoExecutor
  /\ AtRest

SpecComments == InitComments /\ [][NextValidate]_vars

(***************************************************************************)
(* execute_sql requests on a session                                       *)
(***************************************************************************)
evidence_db == <<"e", "v", "i", "d", "e", "n", "c", "e", ".", "d", "b">>

(***************************************************************************)
(* build_schema_context applied to one database file                       *)
(***************************************************************************)
\* the rows of a table: row k holds two of the values below, so that the
\* first three rows hold an integer, NULL, a text of 50 characters and a
\* text of 51
SampleValues ==
  << integer_value(<<"7">>), null_value, text_value([k \in 1..SampleChars |-> "a"]),
     text_value([k \in 1..(SampleChars + 1) |-> "b"]), text_value(<<"x">>) >>

sample_row(k) ==
  << SampleValues[((k - 1) % Len(SampleValues)) + 1], SampleValues[(k % Len(SampleValues)) + 1] >>

\* the files a session loads: a database with a table of four rows and a
\* table with a foreign key, and a database that passes the checks of
\* upload_file (integrity_check, the names of sqlite_master, table_info)
\* while the sql column of its table is not valid UTF-8
create_table_t == <<"C", "R", "E", "A", "T", "E", " ", "T", "A", "B", "L", "E", " ", "t", "(", "a", ",", " ", "b", ")">>

create_table_u == <<"C", "R", "E", "A", "T", "E", " ", "T", "A", "B", "L", "E", " ", "u", "(", "c", " ", "R", "E", "F", "E", "R", "E", "N", "C", "E", "S", " ", "t", "(", "a", ")", ")">>

plain_database ==
  << Table(<<"t">>, create_table_t, TRUE, <<>>, << <<"a">>, <<"b">> >>,
           [k \in 1..4 |-> sample_row(k)], TRUE),
     Table(<<"u">>, create_table_u, TRUE, <<ForeignKey(<<"t">>, <<"c">>, <<"a">>)>>,
           << <<"c">> >>, <<>>, TRUE) >>

undecodable_database ==
  << Table(<<"w">>, <<>>, FALSE, <<>>, << <<"a">> >>, << <<integer_value(<<"1">>)>> >>, TRUE) >>

\* the most rows of the first table of a file
MaxRows == 4

\* the first table of a file: with and without its DDL, with a sql column
\* that can and cannot be decoded, with and without a foreign key, with up
\* to MaxRows rows, readable by SELECT * or not
SchemaTables ==
  { Table(<<"t">>, create_sql, decodable, foreign_keys, << <<"a">>, <<"b">> >>,
          [k \in 1..n |-> sample_row(k)], selectable) :
      create_sql \in {create_table_t, <<>>},
      decodable \in BOOLEAN,
      foreign_keys \in {<<>>, <<ForeignKey(<<"u">>, <<"a">>, <<"c">>)>>},
      n \in 0..MaxRows,
      selectable \in BOOLEAN }

\* the files: no table, one table, and one table followed by the table u
SchemaDatabases ==
  {<<>>} \cup {<<table>> : table \in SchemaTables}
         \cup {<<table, plain_database[2]>> : table \in SchemaTables}

InitSchema ==
  /\ sql = <<>>
  /\ verdict = [valid |-> FALSE, reason |-> None]
  /\ vpc = "off"
  /\ sql_for_analysis = <<>>
  /\ \/ /\ db_filepath = <<>>
        /\ disk = [path \in {evidence_db} |-> NoFile]
     \/ /\ db_filepath = evidence_db
        /\ \E tables \in SchemaDatabases : disk = [path \in {evidence_db} |-> File(tables)]
  /\ chat_history = <<>>
  /\ schema_context_cache = <<>>
  /\ pc = "off"
  /\ sql_query = <<>>
  /\ e = <<>>
  /\ llm_response = <<>>
  /\ corrected_sql = <<>>
  /\ response = NoResponse
  /\ calls = <<>>
  /\ run = NoRun
  /\ provider_outcome = NoLlmCall
  /\ schema_context = <<>>
  /\ database = "uploaded"
  /\ LLM_PROVIDER = "lmstudio"
  /\ include_samples \in BOOLEAN
  /\ built = NoBuild
  /\ NoExecutor
  /\ AtRest

Build ==
  /\ built = NoBuild
  /\ built' = build_schema_context(db_filepath, include_samples,
                                   IF db_filepath = <<>> THEN <<>>
                                   ELSE disk[db_filepath].tables)
  /\ UNCHANGED <<validator_vars, session_vars, request_vars, database, environment_vars,
                 include_samples, executor_vars, further_vars>>

NextSchema == Build

SpecSchema == InitSchema /\ [][NextSchema]_vars

(***************************************************************************)
(* upload_file and chat_stream on one session                              *)
(***************************************************************************)
\* a second path of UPLOAD_FOLDER, and a second database
case_db == <<"c", "a", "s", "e", ".", "d", "b">>

case_database ==
  << Table(<<"v">>, <<"C", "R", "E", "A", "T", "E", " ", "T", "A", "B", "L", "E", " ", "v", "(", "d", ")">>, TRUE, <<>>, << <<"d">> >>,
           << <<text_value(<<"x">>)>> >>, TRUE) >>

\* the most messages of chat_history
MaxMessages == 2

\* request.files of an upload: whether it has the part database_file, the
\* path secure_filename gives its name, whether validate_upload_file accepts
\* it, whether the checks or the conversion of its format succeed, and the
\* user tables of the database it is or is converted to
Upload(part, final_filepath, acceptable, valid, tables) ==
  [part |-> part, final_filepath |-> final_filepath, acceptable |-> acceptable,
   valid |-> valid, tables |-> tables]

Uploads ==
  { Upload(FALSE, <<>>, FALSE, FALSE, <<>>),
    Upload(TRUE, <<>>, FALSE, FALSE, <<>>),
    Upload(TRUE, evidence_db, FALSE, FALSE, <<>>),
    Upload(TRUE, evidence_db, TRUE, FALSE, <<>>) }
    \cup { Upload(TRUE, final_filepath, TRUE, TRUE, tables) :
             final_filepath \in {evidence_db, case_db},
             tables \in {plain_database, case_database, undecodable_database} }

\* jsonify({'schema': schema, 'metadata': {...}})
UploadDone(tables) == [status |-> 200, tables |-> Len(tables)]

\* Response(stream_with_context(stream_llm_response(messages_to_send, ...))),
\* whose system prompt holds the schema context
ChatStream(context) == [status |-> 200, schema_context |-> context]

\* request.json of a chat_stream request, and the outcome of the health
\* check of the provider
ChatBodies ==
  { <<>>,
    [message |-> <<>>],
    [message |-> <<"h", "i">>],
    [message |-> <<"h", "i">>, provider |-> "lmstudio"],
    [message |-> <<"h", "i">>, provider |-> "ollama"] }

\* upload_file: the checks of the request and of the file; os.replace puts
\* the file at final_filepath; the session gets db_filepath and an empty
\* chat_history, and then the context build_schema_context returns: when it
\* raises, the except clause answers 500 and the session keeps the
\* assignments made before the call
upload_file ==
  /\ \E upload \in Uploads :
        IF ~upload.part
        THEN /\ response' = Response(400, Reason("No file part", <<>>))
             /\ connections' = <<>>
             /\ UNCHANGED <<session_vars, disk>>
        ELSE IF upload.final_filepath = <<>>
        THEN /\ response' = Response(400, Reason("No selected file", <<>>))
             /\ connections' = <<>>
             /\ UNCHANGED <<session_vars, disk>>
        ELSE IF ~upload.acceptable
        THEN /\ response' = Response(400, Reason("File validation failed", <<>>))
             /\ connections' = <<>>
             /\ UNCHANGED <<session_vars, disk>>
        ELSE IF ~upload.valid
        THEN /\ response' = Response(400, Reason("Invalid SQLite database: {}", <<>>))
             /\ connections' = <<>>
             /\ UNCHANGED <<session_vars, disk>>
        ELSE /\ disk' = [disk EXCEPT ![upload.final_filepath] = File(upload.tables)]
             /\ db_filepath' = upload.final_filepath
             /\ chat_history' = <<>>
             /\ connections' = <<sqlite3_connect(upload.final_filepath)>>
             /\ LET context == build_schema_context(upload.final_filepath, TRUE, upload.tables)
                IN  IF context.raised # ""
                    THEN /\ response' = Response(500, Reason("Upload processing failed: {}",
                                                             <<>>))
                         /\ UNCHANGED schema_context_cache
                    ELSE /\ schema_context_cache' = context.value
                         /\ response' = UploadDone(upload.tables)
  /\ UNCHANGED <<validator_vars, pc, sql_query, e, llm_response, corrected_sql, calls, run,
                 provider_outcome, schema_context, database, LLM_PROVIDER, builder_vars,
                 executor_vars, correction_prompt, uuids, legacy_verdict, chat_provider,
                 correction_provider, stream_vars>>

\* chat_stream up to its return: the checks of the body and of the
\* provider; the schema context is the cache of the session when that is
\* not empty, else it is built and stored (sqlite3.Error ends the request);
\* the user message is appended to the list the session holds, which the
\* session interface stores when the session was assigned to in the request
\* and, depending on its version, also when it was not; the provider is the
\* one of the body, else LLM_PROVIDER (no request sets the key llm_provider
\* of the session); the requests of a session come one after the other
chat_stream ==
  /\ pc \in {"off", "idle", "done"}
  /\ uuids < MaxMessages
  /\ \E data \in ChatBodies, available \in BOOLEAN, stored \in BOOLEAN :
        LET provider == IF "provider" \in DOMAIN data THEN data.provider ELSE LLM_PROVIDER
            user_message == Message("user", uuids + 1)
        IN  IF DOMAIN data = {}
            THEN /\ response' = Response(400, Reason("Invalid request body", <<>>))
                 /\ connections' = <<>>
                 /\ UNCHANGED <<session_vars, uuids, chat_provider>>
            ELSE IF data.message = <<>>
            THEN /\ response' = Response(400, Reason("Empty message", <<>>))
                 /\ connections' = <<>>
                 /\ UNCHANGED <<session_vars, uuids, chat_provider>>
            ELSE IF ~available
            THEN /\ response' = Response(503, Reason("{} is not running or not reachable",
                                                     <<>>))
                 /\ connections' = <<>>
                 /\ UNCHANGED <<session_vars, uuids, chat_provider>>
            ELSE IF db_filepath # <<>> /\ schema_context_cache = <<>>
            THEN LET context == build_schema_context(db_filepath, TRUE,
                                                     disk[db_filepath].tables)
                 IN  /\ connections' = <<sqlite3_connect(db_filepath)>>
                     /\ IF context.raised # ""
                        THEN /\ response' = Response(500, Reason("Database access error: {}",
                                                                 <<>>))
                             /\ UNCHANGED <<session_vars, uuids, chat_provider>>
                        ELSE /\ schema_context_cache' = context.value
                             /\ chat_history' = Append(chat_history, user_message)
                             /\ uuids' = uuids + 1
                             /\ chat_provider' = provider
                             /\ response' = ChatStream(context.value)
                             /\ UNCHANGED db_filepath
            ELSE /\ chat_history' = IF stored THEN Append(chat_history, user_message)
                                    ELSE chat_history
                 /\ uuids' = uuids + 1
                 /\ chat_provider' = provider
                 /\ connections' = <<>>
                 /\ response' = ChatStream(schema_context_cache)
                 /\ UNCHANGED <<db_filepath, schema_context_cache>>
  /\ UNCHANGED <<validator_vars, pc, sql_query, e, llm_response, corrected_sql, calls, run,
                 provider_outcome, schema_context, database, environment_vars, builder_vars,
                 executor_vars, correction_prompt, legacy_verdict, correction_provider,
                 stream_vars>>

\* a session without a database, and an empty UPLOAD_FOLDER
InitSession ==
  /\ sql = <<>>
  /\ verdict = [valid |-> FALSE, reason |-> None]
  /\ vpc = "off"
  /\ sql_for_analysis = <<>>
  /\ db_filepath = <<>>
  /\ chat_history = <<>>
  /\ schema_context_cache = <<>>
  /\ disk = [path \in {evidence_db, case_db} |-> NoFile]
  /\ pc = "off"
  /\ sql_query = <<>>
  /\ e = <<>>
  /\ llm_response = <<>>
  /\ corrected_sql = <<>>
  /\ response = NoResponse
  /\ calls = <<>>
  /\ run = NoRun
  /\ provider_outcome = NoLlmCall
  /\ schema_context = <<>>
  /\ database = "uploaded"
  /\ LLM_PROVIDER = "lmstudio"
  /\ include_samples = TRUE
  /\ built = NoBuild
  /\ NoExecutor
  /\ AtRest

NextSession == upload_file \/ chat_stream

SpecSession == InitSession /\ [][NextSession]_vars

(***************************************************************************)
(* execute_sql                                                             *)
(***************************************************************************)
\* the sessions requests arrive in, with LM Studio as the provider: before
\* an upload; after the upload of the plain database, with its context in
\* the cache, before a chat_stream request, after one, and after
\* save_assistant_message; after the upload of the undecodable database, for
\* which upload_file sets db_filepath and then fails in build_schema_context,
\* as the first upload (no cache) or after the plain database (its context
\* still in the cache); and, with Ollama as the provider, after the upload
\* of the plain database
Init ==
  /\ sql = <<>>
  /\ verdict = [valid |-> FALSE, reason |-> None]
  /\ vpc = "off"
  /\ sql_for_analysis = <<>>
  /\ \/ /\ LLM_PROVIDER = "lmstudio"
        /\ db_filepath = <<>>
        /\ chat_history = <<>>
        /\ schema_context_cache = <<>>
        /\ disk = [path \in {evidence_db} |-> NoFile]
     \/ /\ LLM_PROVIDER = "lmstudio"
        /\ db_filepath = evidence_db
        /\ chat_history \in {earlier_history(0), earlier_history(1), earlier_history(2)}
        /\ disk = [path \in {evidence_db} |-> File(plain_database)]
        /\ schema_context_cache = build_schema_context(evidence_db, TRUE, plain_database).value
     \/ /\ LLM_PROVIDER = "lmstudio"
        /\ db_filepath = evidence_db
        /\ chat_history = <<>>
        /\ disk = [path \in {evidence_db} |-> File(undecodable_database)]
        /\ schema_context_cache \in
             {<<>>, build_schema_context(evidence_db, TRUE, plain_database).value}
     \/ /\ LLM_PROVIDER = "ollama"
        /\ db_filepath = evidence_db
        /\ chat_history = <<>>
        /\ disk = [path \in {evidence_db} |-> File(plain_database)]
        /\ schema_context_cache = build_schema_context(evidence_db, TRUE, plain_database).value
  /\ pc = "idle"
  /\ sql_query = <<>>
  /\ e = <<>>
  /\ llm_response = <<>>
  /\ corrected_sql = <<>>
  /\ response = NoResponse
  /\ calls = <<>>
  /\ run = NoRun
  /\ provider_outcome = NoLlmCall
  /\ schema_context = <<>>
  /\ database = "uploaded"
  /\ include_samples = TRUE
  /\ built = NoBuild
  /\ NoExecutor
  /\ AtRest

\* return a response: the request is over
Return(r) ==
  /\ response' = r
  /\ pc' = "done"

\* a variant of retry_failure whose response does not carry the error of
\* the first execution
retry_failure_without_first_error(first_error, retry_error) ==
  Response(500, Reason("SQL retry also failed", <<>>))

\* the except clause of the correction: whatever retry_error was raised,
\* the response carries e, the error of the first execution
retry_failure(first_error, retry_error) == SqlError(first_error)

\* execute_sql up to its first call of execute_and_parse_query
Receive ==
  /\ pc \in {"idle", "done"}
  /\ \E data \in RequestBodies :
        LET query == IF "sql_query" \in DOMAIN data THEN data.sql_query ELSE <<>>
        IN  /\ sql_query' = query
            /\ e' = <<>>
            /\ llm_response' = <<>>
            /\ corrected_sql' = <<>>
            /\ run' = NoRun
            /\ provider_outcome' = NoLlmCall
            /\ schema_context' = <<>>
            /\ correction_prompt' = <<>>
            /\ correction_provider' = ""
            /\ connections' = <<>>
            /\ IF DOMAIN data = {}
               THEN /\ Return(Response(400, Reason("Invalid request body", <<>>)))
                    /\ calls' = <<>>
               ELSE IF query = <<>> \/ db_filepath = <<>>
               THEN /\ Return(Response(400, Reason("Missing SQL or Database", <<>>)))
                    /\ calls' = <<>>
               ELSE /\ calls' = <<Call("validate_sql", query)>>
                    /\ IF ~validate_sql(query).valid
                       THEN Return(Response(403, validate_sql(query).reason))
                       ELSE /\ pc' = "execute"
                            /\ response' = NoResponse
  /\ UNCHANGED <<validator_vars, session_vars, database, environment_vars, builder_vars,
                 executor_vars, uuids, legacy_verdict, chat_provider, stream_vars>>

\* the first execute_and_parse_query call and what follows its outcome
Execute ==
  /\ pc = "execute"
  /\ calls' = Append(calls, Call("execute_and_parse_query", sql_query))
  /\ \E answer \in engine_answers(sql_query) :
        LET ran == execute_and_parse_query(db_filepath, sql_query, answer)
        IN  /\ run' = ran
            /\ connections' = Append(connections, ran.conn)
            /\ database' = IF ran.written THEN "modified" ELSE database
            /\ \/ /\ ran.outcome.kind = "rows"
                  /\ chat_history' =
                       update_chat_history_with_results(chat_history, sql_query, ran.rows)
                  /\ Return(Found(ran.rows))
                  /\ UNCHANGED e
               \/ /\ ran.outcome.kind = "sqlite3.Error"
                  /\ e' = ran.outcome.msg
                  /\ pc' = "correct"
                  /\ UNCHANGED <<chat_history, response>>
               \/ /\ ran.outcome.kind = "Exception"     \* not caught: the framework answers
                  /\ Return(Response(500, Reason("Internal Server Error", <<>>)))
                  /\ UNCHANGED <<chat_history, e>>
               \/ /\ ran.outcome.kind = "unending"      \* the call does not return
                  /\ pc' = "executing"
                  /\ UNCHANGED <<chat_history, e, response>>
  /\ UNCHANGED <<validator_vars, db_filepath, schema_context_cache, sql_query,
                 llm_response, corrected_sql, provider_outcome, schema_context,
                 environment_vars, builder_vars, executor_vars, correction_prompt, uuids,
                 legacy_verdict, chat_provider, correction_provider, stream_vars>>

\* the correction up to the return of call_llm_non_streaming, for the schema
\* context given by build: the context is built (build_schema_context runs a
\* SELECT on sqlite_master and PRAGMA foreign_key_list on a connection of its
\* own, statements that do not write), an exception of it ends the request,
\* and the one call_llm_non_streaming call is made with the provider of the
\* session, which no handler sets, hence LLM_PROVIDER
correction(build) ==
  /\ pc = "correct"
  /\ connections' = Append(connections, sqlite3_connect(db_filepath))
  /\ IF build.raised # ""
     THEN /\ Return(retry_failure(e, Reason(build.raised, <<>>)))
          /\ UNCHANGED <<llm_response, calls, provider_outcome, schema_context,
                         correction_prompt, correction_provider>>
     ELSE /\ schema_context' = build.value
          /\ correction_prompt' = build_error_correction_prompt(e, sql_query, build.value)
          \* provider = session.get('llm_provider', LLM_PROVIDER): no request
          \* sets the key llm_provider of the session
          /\ correction_provider' = LLM_PROVIDER
          /\ calls' = Append(calls, Call("call_llm_non_streaming", sql_query))
          /\ \E outcome \in ProviderOutcomes :
                LET returned == call_llm_non_streaming(LLM_PROVIDER, outcome)
                IN  /\ provider_outcome' = outcome
                    /\ IF returned.raised # ""
                       THEN /\ Return(retry_failure(e, Reason(returned.raised, <<>>)))
                            /\ UNCHANGED llm_response
                       ELSE /\ llm_response' = returned.value
                            /\ pc' = "extract"
                            /\ UNCHANGED response
  /\ UNCHANGED <<validator_vars, session_vars, sql_query, e, corrected_sql, run, database,
                 environment_vars, builder_vars, executor_vars, uuids, legacy_verdict,
                 chat_provider, stream_vars>>

\* a variant of Correct that takes the schema context of the session when
\* there is one
Correct_from_cache ==
  correction(IF schema_context_cache # <<>> THEN ReturnValue(schema_context_cache)
             ELSE build_schema_context(db_filepath, FALSE, disk[db_filepath].tables))

\* schema_context = build_schema_context(db_filepath, include_samples=False)
\* and what follows it
Correct == correction(build_schema_context(db_filepath, FALSE, disk[db_filepath].tables))

\* a variant of Extract that does not validate the corrected statement
Extract_unvalidated ==
  /\ pc = "extract"
  /\ LET sql_match == re_search_sql_block(llm_response)
         corrected == strip(sql_match.group1)
     IN  IF ~sql_match.match
         THEN /\ Return(retry_failure(e, Reason("LLM did not return corrected SQL", <<>>)))
              /\ UNCHANGED <<corrected_sql, calls>>
         ELSE /\ corrected_sql' = corrected
              /\ pc' = "retry"
              /\ UNCHANGED <<response, calls>>
  /\ UNCHANGED <<validator_vars, session_vars, sql_query, e, llm_response, run,
                 provider_outcome, database, schema_context, environment_vars,
                 builder_vars, executor_vars, further_vars>>

\* extract the corrected statement from the reply and validate it
Extract ==
  /\ pc = "extract"
  /\ LET sql_match == re_search_sql_block(llm_response)
         corrected == strip(sql_match.group1)
     IN  IF ~sql_match.match
         THEN /\ Return(retry_failure(e, Reason("LLM did not return corrected SQL", <<>>)))
              /\ UNCHANGED <<corrected_sql, calls>>
         ELSE /\ corrected_sql' = corrected
              /\ calls' = Append(calls, Call("validate_sql", corrected))
              /\ IF ~validate_sql(corrected).valid
                 THEN Return(retry_failure(e, Reason("Corrected SQL failed validation: {}",
                                                     validate_sql(corrected).reason)))
                 ELSE /\ pc' = "retry"
                      /\ UNCHANGED response
  /\ UNCHANGED <<validator_vars, session_vars, sql_query, e, llm_response, run,
                 provider_outcome, database, schema_context, environment_vars,
                 builder_vars, executor_vars, further_vars>>

\* a variant of Retry that asks the model again when the corrected statement
\* fails
Retry_again ==
  /\ pc = "retry"
  /\ calls' = Append(calls, Call("execute_and_parse_query", corrected_sql))
  /\ \E answer \in EngineOutcomes :
        LET ran == execute_and_parse_query(db_filepath, corrected_sql, answer)
        IN  /\ run' = ran
            /\ connections' = Append(connections, ran.conn)
            /\ database' = IF ran.written THEN "modified" ELSE database
            /\ \/ /\ ran.outcome.kind = "rows"
                  /\ chat_history' =
                       update_chat_history_with_results(chat_history, corrected_sql, ran.rows)
                  /\ Return(FoundAfterRetry(ran.rows, sql_query, corrected_sql))
               \/ /\ ran.outcome.kind # "rows"
                  /\ pc' = "correct"
                  /\ UNCHANGED <<chat_history, response>>
  /\ UNCHANGED <<validator_vars, db_filepath, schema_context_cache, sql_query, e,
                 llm_response, corrected_sql, provider_outcome, schema_context,
                 environment_vars, builder_vars, executor_vars, correction_prompt, uuids,
                 legacy_verdict, chat_provider, correction_provider, stream_vars>>

\* the second execute_and_parse_query call and what follows its outcome
Retry ==
  /\ pc = "retry"
  /\ calls' = Append(calls, Call("execute_and_parse_query", corrected_sql))
  /\ \E answer \in engine_answers(corrected_sql) :
        LET ran == execute_and_parse_query(db_filepath, corrected_sql, answer)
        IN  /\ run' = ran
            /\ connections' = Append(connections, ran.conn)
            /\ database' = IF ran.written THEN "modified" ELSE database
            /\ \/ /\ ran.outcome.kind = "rows"
                  /\ chat_history' =
                       update_chat_history_with_results(chat_history, corrected_sql, ran.rows)
                  /\ Return(FoundAfterRetry(ran.rows, sql_query, corrected_sql))
               \/ /\ ran.outcome.kind \in {"sqlite3.Error", "Exception"}
                  /\ Return(retry_failure(e, ran.outcome.msg))
                  /\ UNCHANGED chat_history
               \/ /\ ran.outcome.kind = "unending"      \* the call does not return
                  /\ pc' = "retrying"
                  /\ UNCHANGED <<chat_history, response>>
  /\ UNCHANGED <<validator_vars, db_filepath, schema_context_cache, sql_query, e,
                 llm_response, corrected_sql, provider_outcome, schema_context,
                 environment_vars, builder_vars, executor_vars, correction_prompt, uuids,
                 legacy_verdict, chat_provider, correction_provider, stream_vars>>

execute_sql == Receive \/ Execute \/ Correct \/ Extract \/ Retry

Next == execute_sql

Spec == Init /\ [][Next]_vars

\* the positions of a request
Positions == {"idle", "execute", "executing", "correct", "extract", "retry", "retrying", "done"}

\* a request leaves one of the steps of its handler
Proceed == pc \in {"execute", "correct", "extract", "retry"} /\ pc' \in Positions \ {pc}

\* the worker that took a request runs its handler: a request that stands
\* before a step takes it (each of the four steps can always be taken, and
\* changes pc). Nothing makes a client send a request, and nothing makes a
\* call of the engine that has not returned return
FairSpec == Init /\ [][Next]_vars /\ WF_pc(Proceed)

(***************************************************************************)
(* Properties of validate_sql, checked under SpecValidate.                 *)
(***************************************************************************)
\* validate_sql has returned its verdict on sql
Returned == vpc = "return"

\* the text starts with word, whatever the case of its letters
starts_with_word(text, word) == startswith(upper(text), word)

\* the blocklisted keywords that occur in text, whatever the case, as whole
\* words of text with every character outside the quoted spans and comments
blocklisted_outside(text) ==
  LET outside == Range(emitted(text))
      up      == upper(text)
  IN  {k \in DOMAIN FORBIDDEN_QUERY_KEYWORDS :
         LET keyword == FORBIDDEN_QUERY_KEYWORDS[k]
         IN  \E i \in 1..(Len(text) - Len(keyword) + 1) :
                /\ up[i] = keyword[1]
                /\ slice(up, i, Len(keyword)) = keyword
                /\ \A j \in i..(i + Len(keyword) - 1) : j \in outside
                /\ (i = 1 \/ up[i - 1] \notin word_chars)
                /\ (i + Len(keyword) > Len(text) \/ up[i + Len(keyword)] \notin word_chars)}

\* the blocklisted keywords that occur in text at all, whatever the case
blocklisted_anywhere(text) ==
  {k \in DOMAIN FORBIDDEN_QUERY_KEYWORDS :
     contains(upper(text), FORBIDDEN_QUERY_KEYWORDS[k])}

\* what is left of text once surrounding whitespace and leading '--' lines
\* are skipped
RECURSIVE substantive(_)
substantive(text) ==
  LET rest == lstrip_chars(text, whitespace)
      nl   == find(rest, <<"\n">>, 1)
  IN  IF ~startswith(rest, <<"-", "-">>) THEN rstrip(rest)
      ELSE IF nl = 0 THEN <<>>
      ELSE substantive(SubSeq(rest, nl + 1, Len(rest)))

\* the allowed keywords the substantive text starts with
entry_points(text) ==
  LET start == upper(substantive(text))
  IN  {k \in DOMAIN allowed_starts : startswith(start, allowed_starts[k])}

\* the positions of the ';' of text outside quoted spans and comments
terminators(text) == {p \in Range(emitted(text)) : text[p] = ";"}

\* some ';' outside spans is followed, outside spans, by a character that is
\* neither whitespace nor ';'
second_statement(text) ==
  LET outside == Range(emitted(text))
  IN  \E p \in outside :
         /\ text[p] = ";"
         /\ \E q \in outside : q > p /\ text[q] \notin whitespace \cup {";"}

\* the number of the rule a reason belongs to; 0 for no reason
rule_of(reason) ==
  CASE reason.template = "Query must start with: {}" -> 1
    [] reason.template = "Security Warning: Multiple SQL statements are not allowed." -> 2
    [] reason.template = "Security Warning: Query contains forbidden keyword '{}'." -> 3
    [] reason.template = "CTE (WITH clause) must contain a SELECT statement." -> 4
    [] reason.template = "Security Warning: {} is not allowed (can modify database)." -> 5
    [] OTHER -> 0

\* the text violates rule r
violates(text, r) ==
  CASE r = 1 -> rule1_rejects(text)
    [] r = 2 -> rule2_rejects(text)
    [] r = 3 -> rule3_keyword(text) # 0
    [] r = 4 -> rule4_rejects(text)
    [] r = 5 -> rule5_pragma(text) # 0

\* the text violates none of the rules before rule r
passes_before(text, r) == \A q \in 1..(r - 1) : ~violates(text, q)

\* the first rule from rule r on that the text violates; 0 when it violates
\* none of them
RECURSIVE first_violated(_, _)
first_violated(text, r) ==
  IF r > 5 THEN 0
  ELSE IF violates(text, r) THEN r
  ELSE first_violated(text, r + 1)

\* C2, as stated: a text with a blocklisted keyword as a whole word outside
\* every quoted span and comment is rejected.  The code accepts SELECT/**/Drop.
C2_KeywordOutsideRejected ==
  Returned /\ blocklisted_outside(sql) # {} => ~verdict.valid

\* C3, as stated: a text that passes the entry-point, single-statement, CTE
\* and PRAGMA rules and has blocklisted keywords only inside quoted spans and
\* comments is accepted.  The code rejects SELECT up/*drop*/date.
C3_KeywordInsideAccepted ==
  ( /\ Returned
    /\ \A r \in {1, 2, 4, 5} : ~violates(sql, r)
    /\ blocklisted_anywhere(sql) # {}
    /\ blocklisted_outside(sql) = {} )
  => verdict.valid

C5_EntryPoint ==
  Returned
  => LET starts == entry_points(sql)
     IN  /\ verdict.valid => Cardinality(starts) = 1
         /\ starts = {} => ~verdict.valid /\ verdict.reason = must_start_reason

\* an accepted text whose first line is a '--' comment
C5_Witness ==
  Returned /\ verdict.valid /\ startswith(sql, <<"-", "-">>)

\* C6: a text that passes the entry-point rule and has, outside quoted spans
\* and comments, a ';' followed by further statement text is rejected with
\* the multiple-statements reason, and a text with no ';' outside quoted
\* spans and comments never gets that reason.
C6_SecondStatement ==
  Returned /\ entry_points(sql) # {}
  => /\ second_statement(sql)
          => ~verdict.valid /\ verdict.reason = multiple_statements_reason
     /\ terminators(sql) = {} => verdict.reason # multiple_statements_reason

\* a rejected second statement, and next to it a ';' inside a quoted span
\* that is not counted
C6_Witness ==
  /\ Returned
  /\ entry_points(sql) # {}
  /\ second_statement(sql)
  /\ verdict.reason = multiple_statements_reason

C6_WitnessQuoted ==
  /\ Returned
  /\ contains(sql, <<";">>)
  /\ terminators(sql) = {}
  /\ verdict.valid

\* the text without its trailing whitespace and the run of ';' before it
before_terminators(text) == rstrip_chars(rstrip(text), {";"})

\* how many ';' that run has
trailing_terminators(text) == Len(rstrip(text)) - Len(before_terminators(text))

\* an otherwise valid statement followed by a run of ';' and optional
\* whitespace: the text before the run is accepted by itself and has no ';'
\* outside quoted spans and comments, where the ';' of the run are
terminated_statement(text) ==
  LET statement == before_terminators(text)
      outside   == terminators(text)
  IN  /\ trailing_terminators(text) >= 1
      /\ validate_sql(statement).valid
      /\ terminators(statement) = {}
      /\ \A p \in (Len(statement) + 1)..Len(rstrip(text)) : p \in outside

\* C7, as stated: an otherwise valid statement followed by one ';' and
\* optional whitespace is accepted, and one followed by two or more ';' is
\* rejected as multiple statements.  The code accepts SELECT;; .
C7_ExactlyOneTerminator ==
  Returned /\ terminated_statement(sql)
  => IF trailing_terminators(sql) = 1
     THEN verdict.valid
     ELSE ~verdict.valid /\ verdict.reason = multiple_statements_reason

\* C7, amended: an otherwise valid statement followed by a run of one or more
\* adjacent ';' and optional whitespace is accepted.
C7_TrailingTerminators ==
  Returned /\ terminated_statement(sql) => verdict.valid

\* an accepted statement that ends in two or more ';'
C7_Witness ==
  /\ Returned
  /\ terminated_statement(sql)
  /\ trailing_terminators(sql) >= 2
  /\ verdict.valid

\* the blocklisted keywords that are whole words of the tokenizer's output
surviving(text) ==
  LET output == upper(strip_strings_and_comments(text))
  IN  {k \in DOMAIN FORBIDDEN_QUERY_KEYWORDS :
         re_search_word(FORBIDDEN_QUERY_KEYWORDS[k], output)}

C8_FirstViolatedRule ==
  Returned
  => LET first == first_violated(sql, 1)
     IN  IF first = 0
         THEN verdict.valid /\ verdict.reason = None
         ELSE ~verdict.valid /\ rule_of(verdict.reason) = first

\* a text that violates the single-statement rule and the blocklist and gets
\* the multiple-statements reason
C8_Witness ==
  /\ Returned
  /\ ~violates(sql, 1)
  /\ violates(sql, 2)
  /\ violates(sql, 3)
  /\ verdict.reason = multiple_statements_reason

\* the names of the write-capable pragmas
write_pragma_names ==
  { <<"J", "O", "U", "R", "N", "A", "L", "_", "M", "O", "D", "E">>,
    <<"L", "O", "C", "K", "I", "N", "G", "_", "M", "O", "D", "E">>,
    <<"W", "R", "I", "T", "A", "B", "L", "E", "_", "S", "C", "H", "E", "M", "A">>,
    <<"A", "U", "T", "O", "_", "V", "A", "C", "U", "U", "M">>,
    <<"I", "N", "C", "R", "E", "M", "E", "N", "T", "A", "L", "_", "V", "A", "C", "U", "U", "M">> }

\* C9, as stated: a text that starts with PRAGMA and whose uppercased text
\* contains the name of a write-capable pragma is rejected, whatever stands
\* between PRAGMA and the name.  The code accepts Pragma main.journal_mode.
C9_WritePragmaRejected ==
  ( /\ Returned
    /\ starts_with_word(strip(sql), <<"P", "R", "A", "G", "M", "A">>)
    /\ \E name \in write_pragma_names : contains(upper(sql), name) )
  => ~verdict.valid

\* C10: a text that passes rules 1 to 3 and whose first characters after
\* surrounding whitespace are WITH is accepted when its uppercased raw text
\* contains SELECT, and rejected with the CTE reason when it does not.
C10_CteCompleteness ==
  ( /\ Returned
    /\ starts_with_word(strip(sql), <<"W", "I", "T", "H">>)
    /\ passes_before(sql, 4) )
  => IF contains(upper(sql), <<"S", "E", "L", "E", "C", "T">>)
     THEN verdict.valid
     ELSE ~verdict.valid /\ verdict.reason = cte_reason

\* a WITH without SELECT, rejected, and a WITH whose only SELECT is inside a
\* comment or quoted span, accepted
C10_Witness ==
  /\ Returned
  /\ starts_with_word(strip(sql), <<"W", "I", "T", "H">>)
  /\ verdict.reason = cte_reason

C10_WitnessQuotedSelect ==
  /\ Returned
  /\ starts_with_word(strip(sql), <<"W", "I", "T", "H">>)
  /\ ~contains(upper(strip_strings_and_comments(sql)), <<"S", "E", "L", "E", "C", "T">>)
  /\ verdict.valid

(***************************************************************************)
(* Properties of execute_sql, checked under Spec.                          *)
(***************************************************************************)
\* the positions in calls of the calls of op
calls_of(op) == {i \in DOMAIN calls : calls[i].op = op}

\* C1: every statement the request handed to execute_and_parse_query is one
\* validate_sql accepts and was given to validate_sql earlier in the request;
\* and a request whose submitted statement validate_sql rejects has ended
\* with status 403 and the rejection reason, having executed nothing, called
\* no model and extracted no correction.
C1_ValidatedBeforeExecution ==
  /\ \A i \in calls_of("execute_and_parse_query") :
        /\ validate_sql(calls[i].statement).valid
        /\ \E j \in calls_of("validate_sql") :
              j < i /\ calls[j].statement = calls[i].statement
  /\ ( /\ calls # <<>>
       /\ ~validate_sql(sql_query).valid )
     => /\ pc = "done"
        /\ response.status = 403
        /\ response.error = validate_sql(sql_query).reason
        /\ calls = <<Call("validate_sql", sql_query)>>
        /\ llm_response = <<>>
        /\ corrected_sql = <<>>

\* a request that executed its submitted statement and then a correction
C1_Witness ==
  /\ Cardinality(calls_of("execute_and_parse_query")) = 2
  /\ response.status = 200
  /\ response.retried
  /\ response.corrected_sql # sql_query

\* a request that ended with the rejection of its submitted statement
C1_WitnessRejected ==
  /\ pc = "done"
  /\ calls # <<>>
  /\ response.status = 403

(***************************************************************************)
(* Properties of strip_strings_and_comments, checked under SpecStrip.      *)
(***************************************************************************)
\* strip_strings_and_comments has returned sql_for_analysis for sql
Stripped == vpc = "return"

\* the length of the run of quote characters that starts at position p
quote_run(text, quote, p) ==
  LET stops == {q \in p..Len(text) : text[q] # quote}
  IN  IF stops = {} THEN Len(text) - p + 1
      ELSE (CHOOSE q \in stops : \A r \in stops : q <= r) - p

\* the position of the quote that closes a quoted span whose interior starts
\* at position from, 0 when there is none: a doubled quote is an escaped
\* quote, so the first run of quotes of odd length closes at its last quote
RECURSIVE closing_quote(_, _, _)
closing_quote(text, quote, from) ==
  LET next == find(text, <<quote>>, from)
      quotes == quote_run(text, quote, next)
  IN  IF next = 0 THEN 0
      ELSE IF quotes % 2 = 1 THEN next + quotes - 1
      ELSE closing_quote(text, quote, next + quotes)

\* the kind of span that opens at position p of text
opener(text, p) ==
  CASE text[p] = "'" -> "single"
    [] text[p] = "\"" -> "double"
    [] slice(text, p, 2) = <<"-", "-">> -> "line"
    [] slice(text, p, 2) = <<"/", "*">> -> "block"
    [] OTHER -> "none"

\* the span that opens at position p: a quoted span runs to its closing
\* quote, a line comment to the character before the next newline, a block
\* comment to the end of the next */ after its opener, and each to the end
\* of text when there is no such end
span_from(text, p) ==
  LET kind  == opener(text, p)
      close == CASE kind = "line"  -> find(text, <<"\n">>, p)
                 [] kind = "block" -> find(text, <<"*", "/">>, p + 2)
                 [] OTHER          -> closing_quote(text, text[p], p + 1)
  IN  [first |-> p, kind |-> kind, closed |-> close # 0,
       last |-> IF close = 0 THEN Len(text)
                ELSE CASE kind = "line"  -> close - 1
                       [] kind = "block" -> close + 1
                       [] OTHER          -> close]

\* the spans of text from position from on: the first opener outside every
\* earlier span opens the next span
RECURSIVE spans(_, _)
spans(text, from) ==
  LET openers == {p \in from..Len(text) : opener(text, p) # "none"}
  IN  IF openers = {} THEN {}
      ELSE LET s == span_from(text, CHOOSE p \in openers : \A q \in openers : p <= q)
           IN  {s} \cup spans(text, s.last + 1)

\* the positions of text outside every span
outside_spans(text) ==
  LET all == spans(text, 1)
  IN  {p \in 1..Len(text) : \A s \in all : p < s.first \/ p > s.last}

\* the characters of text at positions, in the order of text
subsequence(text, positions) ==
  [k \in 1..Cardinality(positions) |->
     text[CHOOSE p \in positions : Cardinality({q \in positions : q <= p}) = k]]

\* the spans of text that are opened and never closed
unterminated(text) ==
  {s \in spans(text, 1) : s.kind \in {"single", "double", "block"} /\ ~s.closed}

\* C11: the output of strip_strings_and_comments is the subsequence of the
\* input characters that lie outside every single-quoted span, double-quoted
\* span, line comment and block comment: each of them once, in order, and no
\* other character.
C11_OutsideSubsequence ==
  Stripped => sql_for_analysis = subsequence(sql, outside_spans(sql))

\* a text with a closed quoted span, a comment and characters outside both
C11_Witness ==
  /\ Stripped
  /\ sql_for_analysis # <<>>
  /\ \E s \in spans(sql, 1) : s.kind \in {"single", "double"} /\ s.closed
  /\ \E s \in spans(sql, 1) : s.kind \in {"line", "block"}

\* C12, as stated: strip_strings_and_comments applied to its own output gives
\* that output back.  The code turns -''- into --, which it then strips to
\* the empty text.
C12_Idempotent ==
  Stripped => strip_strings_and_comments(sql_for_analysis) = sql_for_analysis

\* C13: when a single quote, a double quote or a /* is opened outside every
\* other span and never closed, the scan ends and its output is what it
\* emitted before that opener, the output for the text before the opener:
\* nothing from the opener on is emitted.
C13_UnterminatedSpan ==
  Stripped
  => \A s \in unterminated(sql) :
        /\ sql_for_analysis = strip_strings_and_comments(SubSeq(sql, 1, s.first - 1))
        /\ sql_for_analysis = subsequence(sql, {p \in outside_spans(sql) : p < s.first})

\* an unterminated block comment with characters emitted before it and
\* characters after its opener
C13_Witness ==
  /\ Stripped
  /\ sql_for_analysis # <<>>
  /\ \E s \in unterminated(sql) : s.kind = "block" /\ s.last > s.first + 1

\* an execute_sql request has returned a response
Responded == pc = "done" /\ calls # <<>>

\* the names of the calls of the request, in order
ops_called == [i \in DOMAIN calls |-> calls[i].op]

\* the first n rows of the engine, in its order
first_rows(n) == [k \in 1..n |-> k]

C15_FirstRows ==
  /\ MAX_RESULT_ROWS = 2000
  /\ run.outcome.kind = "rows"
     => /\ run.rows = first_rows(Min(run.outcome.n, MAX_RESULT_ROWS))
        /\ run.fetched <= MAX_RESULT_ROWS + 1
        /\ Responded => response.query_results = run.rows

\* a statement that yields more than MAX_RESULT_ROWS + 1 rows
C15_Witness ==
  /\ Responded
  /\ run.outcome.kind = "rows"
  /\ run.outcome.n > MAX_RESULT_ROWS + 1
  /\ Len(response.query_results) = MAX_RESULT_ROWS

\* C16, as stated: a successful result carries a truncated flag that is true
\* exactly when the statement yields more than MAX_RESULT_ROWS rows.  The
\* code returns the rows alone: neither the list execute_and_parse_query
\* returns nor the response has such a flag.
C16_TruncatedFlag ==
  Responded /\ response.status = 200
  => /\ "truncated" \in DOMAIN response
     /\ response.truncated = (run.outcome.n > MAX_RESULT_ROWS)

\* C17: a request makes its calls in the order validate_sql,
\* execute_and_parse_query, call_llm_non_streaming, validate_sql,
\* execute_and_parse_query and stops somewhere along it: at most one model
\* request, at most two executions, and nothing after the correction ended.
C17_OneCorrection ==
  LET order == <<"validate_sql", "execute_and_parse_query", "call_llm_non_streaming",
                 "validate_sql", "execute_and_parse_query">>
  IN  /\ Len(calls) <= Len(order)
      /\ ops_called = SubSeq(order, 1, Len(calls))

\* a request whose corrected statement failed as well
C17_Witness ==
  /\ Responded
  /\ Len(calls) = 5
  /\ response.status = 500

\* C18: when the first execution failed with an engine error and the
\* request did not end with the rows of a corrected statement, the response
\* is status 500 with the error "SQL Error: " followed by the engine message
\* of that first failure.
C18_OriginalError ==
  ( /\ Responded
    /\ e # <<>>
    /\ response.status # 200 )
  => /\ response = Response(500, Reason("SQL Error: {}", e))
     /\ e \in EngineMessages \cup {readonly_database}

\* a corrected statement that failed with another engine message than the
\* submitted one
C18_Witness ==
  /\ Responded
  /\ Len(calls) = 5
  /\ run.outcome.kind = "sqlite3.Error"
  /\ run.outcome.msg # e
  /\ response.status = 500

\* a correction that validate_sql rejected
C18_WitnessRejected ==
  /\ Responded
  /\ Len(calls) = 4
  /\ ~validate_sql(corrected_sql).valid
  /\ response.status = 500

C19_WitnessFirst ==
  /\ Responded
  /\ response.status = 200
  /\ e = <<>>
  /\ response.query_results # <<>>

\* C20, as stated: when the provider timed out or could not be reached, the
\* request ends with a transport error that differs from the SQL execution
\* error and names the provider.  The code answers with "SQL Error: " and
\* the engine message, as for every other failed correction.
C20_TransportError ==
  Responded /\ provider_outcome.kind \in {"timeout", "unreachable"}
  => /\ response.status # 200
     /\ response.error.template # "SQL Error: {}"

(***************************************************************************)
(* Further properties of validate_sql, checked under SpecValidate and      *)
(* SpecComments.                                                           *)
(***************************************************************************)
\* C24: validate_sql returns a pair whose reason is None exactly when the
\* text is accepted, and the reason of a rejection is the non-empty reason
\* text of one of the five rules.
C24_ReasonIffRejected ==
  Returned
  => /\ verdict.valid \in BOOLEAN
     /\ verdict.valid <=> verdict.reason = None
     /\ ~verdict.valid => rule_of(verdict.reason) \in 1..5 /\ verdict.reason.template # ""

\* a rejection by the last rule
C24_Witness ==
  /\ Returned
  /\ ~verdict.valid
  /\ rule_of(verdict.reason) = 5

\* every line of text is blank or, after its leading whitespace, starts
\* with '--'
only_comment_lines(text) ==
  LET lines == split(text, "\n")
  IN  \A k \in 1..Len(lines) :
         \/ lstrip_chars(lines[k], whitespace) = <<>>
         \/ startswith(lstrip_chars(lines[k], whitespace), <<"-", "-">>)

\* C25: an input that is empty, that is whitespace only, or whose lines are
\* all blank or '--' comment lines is rejected at the entry-point rule, with
\* the must-start reason.
C25_NothingButComments ==
  Returned /\ only_comment_lines(sql)
  => verdict = [valid |-> FALSE, reason |-> must_start_reason]

\* comment lines with the start of a statement in a comment, and nothing else
C25_Witness ==
  /\ Returned
  /\ only_comment_lines(sql)
  /\ contains(sql, <<"-", "-", "S", "E", "L", "E", "C", "T">>)
  /\ contains(sql, <<"\n">>)

\* the '--' comment lines put in front of a statement
CommentLines == { <<"-", "-">>, <<"-", "-", " ", "x">> }

\* C28, as stated: a '--' comment line in front of a statement does not
\* change whether validate_sql accepts it.  The code rejects
\* Pragma journal_mode and accepts it after a comment line.
C28_LeadingCommentIndependence ==
  Returned
  => \A c \in CommentLines :
        validate_sql(c \o <<"\n">> \o sql).valid = verdict.valid


\* ---------------------------------------------------------------------
\* The statement taken from the reply of the model (app.py, execute_sql)
\* ---------------------------------------------------------------------

\* the opening marker of a fenced SQL block and the marker that closes a block
sql_fence == <<grave, grave, grave, "s", "q", "l">>

fence == <<grave, grave, grave>>

\* the text between the first opening marker of a reply and the first closing
\* marker after it; found is FALSE when the reply has no such pair
first_fenced_block(reply) ==
  LET open  == find(reply, sql_fence, 1)
      close == IF open = 0 THEN 0 ELSE find(reply, fence, open + Len(sql_fence))
  IN  [found |-> close # 0,
       text  |-> IF close = 0 THEN <<>>
                 ELSE SubSeq(reply, open + Len(sql_fence), close - 1)]

\* the request has gone through the extraction step
Extracted == pc \in {"retry", "done"} /\ calls_of("call_llm_non_streaming") # {}

\* C30: the corrected statement is the text between the first opening sql
\* fence of the reply and the closing fence that follows it (surrounding
\* white space apart); what stands before the block, after it and in later
\* blocks is ignored, and a reply without such a pair of fences gives no
\* statement and ends the request with the original error.
C30_FirstFencedBlock ==
  Extracted /\ llm_response # <<>>
  => IF first_fenced_block(llm_response).found
     THEN corrected_sql = strip(first_fenced_block(llm_response).text)
     ELSE corrected_sql = <<>> /\ pc = "done" /\ response = SqlError(e)


\* ---------------------------------------------------------------------
\* The non-streaming call of the model (llm.py, call_llm_non_streaming)
\* ---------------------------------------------------------------------

\* the message content of a reply body in the shape of Ollama, <<>> when the
\* body has none
ollama_content(data) ==
  IF /\ data.type = "object"
     /\ "message" \in DOMAIN data.fields
     /\ "content" \in DOMAIN data.fields["message"].fields
  THEN data.fields["message"].fields["content"].value
  ELSE <<>>

\* the message content of the first choice of a reply body in the shape of
\* LM Studio, <<>> when the body has no choices or the choice no content
lmstudio_content(data) ==
  IF /\ data.type = "object"
     /\ "choices" \in DOMAIN data.fields
     /\ data.fields["choices"].items # <<>>
     /\ "message" \in DOMAIN data.fields["choices"].items[1].fields
     /\ "content" \in DOMAIN data.fields["choices"].items[1].fields["message"].fields
  THEN data.fields["choices"].items[1].fields["message"].fields["content"].value
  ELSE <<>>

\* C27: call_llm_non_streaming never raises: the step of execute_sql that
\* calls it always goes on to the extraction, with the empty string when the
\* provider request failed (no connection, timeout, error status, a body
\* that is not JSON or not an object) and with the message content of the
\* reply for the selected provider when it succeeded, which is the empty
\* string for an LM Studio reply without choices.
C27_NeverRaises ==
  [][pc = "correct" /\ provider_outcome'.kind # "none"
     => /\ pc' = "extract"
        /\ llm_response' =
             IF provider_outcome'.kind # "reply" THEN <<>>
             ELSE IF LLM_PROVIDER = "ollama" THEN ollama_content(provider_outcome'.data)
             ELSE lmstudio_content(provider_outcome'.data)]_vars

C27_Witness ==
  /\ pc = "extract"
  /\ LLM_PROVIDER = "lmstudio"
  /\ provider_outcome.kind = "reply"
  /\ llm_response = lmstudio_content(provider_outcome.data)
  /\ llm_response # <<>>


\* ---------------------------------------------------------------------
\* The schema context of the correction (llm.py, build_schema_context;
\* app.py, execute_sql)
\* ---------------------------------------------------------------------

\* the descriptor of a foreign key of a table
fk_descriptor(table, fk) ==
  <<" ", " ", "-", "-", " ", "F", "K", ":", " ">> \o table.name \o <<".">> \o fk.from \o <<" ", arrow, " ">>
    \o fk.table \o <<".">> \o fk.to

\* the header of the sample block of a table
sample_header(table) == <<"-", "-", " ">> \o table.name \o <<" ", "s", "a", "m", "p", "l", "e", " ", "(">>

\* text holds the DDL of each table that has one and the descriptor of each
\* foreign key
has_ddl_and_foreign_keys(text, db) ==
  \A k \in DOMAIN db :
     /\ db[k].create_sql # <<>> => contains(text, db[k].create_sql \o <<";", "\n">>)
     /\ \A f \in DOMAIN db[k].foreign_keys :
           contains(text, fk_descriptor(db[k], db[k].foreign_keys[f]))

\* text holds a sample header or a line that is a row of a table
has_sample_data(text, db) ==
  \E k \in DOMAIN db :
     \/ contains(text, sample_header(db[k]))
     \/ \E r \in DOMAIN db[k].rows :
           render_row(db[k].rows[r]) \in Range(split(text, "\n"))

\* C23: the schema context the correction sends to the model was built with
\* include_samples=False (it holds the DDL and the foreign-key descriptors
\* of the tables of the loaded database and no sample data, also when the
\* session caches a context with samples), and no step of execute_sql
\* changes the schema_context_cache of the session.
C23_CorrectionContext ==
  /\ [](calls_of("call_llm_non_streaming") # {}
        => /\ has_ddl_and_foreign_keys(schema_context, disk[db_filepath].tables)
           /\ ~has_sample_data(schema_context, disk[db_filepath].tables))
  /\ [][schema_context_cache' = schema_context_cache]_vars

C23_Witness ==
  /\ calls_of("call_llm_non_streaming") # {}
  /\ has_sample_data(schema_context_cache, disk[db_filepath].tables)
  /\ contains(schema_context, fk_descriptor(plain_database[2], plain_database[2].foreign_keys[1]))
  /\ schema_context # schema_context_cache


\* ---------------------------------------------------------------------
\* The sample rows of a schema context (llm.py, build_schema_context)
\* ---------------------------------------------------------------------

\* build_schema_context returned a context with samples for the file
BuiltWithSamples == built.raised = "" /\ include_samples /\ db_filepath # <<>>

\* the lines of the sample block of a table in a context: the lines after
\* the sample header of the table, up to the next empty line
sample_lines(text, table) ==
  LET lines  == split(text, "\n")
      header == first_index({h \in DOMAIN lines : startswith(lines[h], sample_header(table))})
      end    == first_index({j \in DOMAIN lines : j > header /\ lines[j] = <<>>})
  IN  IF header = 0 THEN <<>>
      ELSE SubSeq(lines, header + 1, IF end = 0 THEN Len(lines) ELSE end - 1)

\* the fields of the sample line of row r of a table
sample_fields(text, table, r) == split(sample_lines(text, table)[r], "|")

\* every table has at most 3 sample lines, one for each of its first rows,
\* each with one field for each value, NULL rendered as the marker NULL,
\* and every field has at most limit characters
samples_within(text, db, limit) ==
  \A k \in DOMAIN db :
     /\ Len(sample_lines(text, db[k])) <= 3
     /\ db[k].selectable => Len(sample_lines(text, db[k])) = Min(Len(db[k].rows), 3)
     /\ \A r \in DOMAIN sample_lines(text, db[k]) :
           /\ Len(sample_fields(text, db[k], r)) = Len(db[k].rows[r])
           /\ \A c \in DOMAIN db[k].rows[r] :
                 /\ Len(sample_fields(text, db[k], r)[c]) <= limit
                 /\ db[k].rows[r][c].type = "null"
                      => sample_fields(text, db[k], r)[c] = <<"N", "U", "L", "L">>

\* C22 as stated: with include_samples=True the context holds at most 3
\* sample rows for each table, every field of a sample row is at most 50
\* characters long, and NULL is rendered as the marker NULL.
C22_SampleFieldsAtMost50 ==
  BuiltWithSamples => samples_within(built.value, disk[db_filepath].tables, 50)

\* C22, amended: with include_samples=True the context holds at most 3
\* sample rows for each table, NULL is rendered as the marker NULL, a value
\* of at most 50 characters is rendered in full, and a longer value as its
\* first 50 characters followed by three dots, so that a field of a sample
\* row is at most 53 characters long.
C22_SampleFieldsTruncated ==
  BuiltWithSamples
  => /\ samples_within(built.value, disk[db_filepath].tables, 53)
     /\ \A k \in DOMAIN disk[db_filepath].tables :
           LET table == disk[db_filepath].tables[k]
           IN  \A r \in DOMAIN sample_lines(built.value, table) :
                  \A c \in DOMAIN table.rows[r] :
                     LET value == table.rows[r][c].str
                         field == sample_fields(built.value, table, r)[c]
                     IN  /\ table.rows[r][c].type # "null" /\ Len(value) <= 50
                              => field = value
                         /\ Len(value) > 50
                              => field = SubSeq(value, 1, 50) \o <<".", ".", ".">>

C22_Witness ==
  /\ BuiltWithSamples
  /\ Len(disk[db_filepath].tables) = 2
  /\ Len(disk[db_filepath].tables[1].rows) = 4
  /\ Len(sample_lines(built.value, disk[db_filepath].tables[1])) = 3
  /\ Len(sample_fields(built.value, disk[db_filepath].tables[1], 3)[2]) = 53
  /\ sample_fields(built.value, disk[db_filepath].tables[1], 1)[2] = <<"N", "U", "L", "L">>


\* ---------------------------------------------------------------------
\* The schema context cache of the session (app.py, upload_file and
\* chat_stream)
\* ---------------------------------------------------------------------

\* C21: after any sequence of upload and chat_stream requests, a non-empty
\* schema_context_cache is the schema context of the database at the
\* db_filepath of the session, and the context chat_stream gives the model
\* is the cache it found when that was not empty.
C21_CacheOfLoadedDatabase ==
  /\ schema_context_cache # <<>>
       => /\ db_filepath # <<>>
          /\ disk[db_filepath].exists
          /\ build_schema_context(db_filepath, TRUE, disk[db_filepath].tables)
               = ReturnValue(schema_context_cache)
  /\ "schema_context" \in DOMAIN response => response.schema_context = schema_context_cache


\* ---------------------------------------------------------------------
\* The end of a request (app.py, execute_sql)
\* ---------------------------------------------------------------------

\* C29: every execute_sql request that reaches its first execution comes to
\* an end with a response: each step completes or fails and none goes on
\* for ever.
C29_RequestEnds ==
  pc \in {"execute", "correct", "extract", "retry"}
    ~> (pc = "done" /\ response # NoResponse)


(***************************************************************************)
(* execute_sql requests that run at the same time on one database file     *)
(***************************************************************************)
MaxRequests == 2

Requests == 1..MaxRequests

\* the statements of the requests: one row, a column the file does not
\* have, a join of t with itself that yields more than MAX_RESULT_ROWS rows,
\* and a statement validate_sql rejects
select_1 == <<"S", "E", "L", "E", "C", "T", " ", "1", ";">>

select_x == <<"S", "E", "L", "E", "C", "T", " ", "x">>

select_2 == <<"S", "E", "L", "E", "C", "T", " ", "2">>

select_many == <<"S", "E", "L", "E", "C", "T", " ", "1", " ", "F", "R", "O", "M", " ", "t", ",", " ", "t", ",", " ", "t", ",", " ", "t", ",", " ", "t", ",", " ", "t">>

ConcurrentStatements == {select_1, select_x, select_many, <<"D", "r", "o", "p", " ", "t">>}

\* the file is opened read-only and no request writes to it: the engine
\* answers a statement with the same rows each time. t holds the rows of
\* plain_database, and the join takes t six times
stored_answer(cleaned) ==
  LET t_rows == Len(plain_database[1].rows)
  IN  CASE cleaned = strip(rstrip_chars(select_1, {";"})) -> Rows(1)
        [] cleaned = select_2 -> Rows(1)
        [] cleaned = select_many -> Rows(t_rows * t_rows * t_rows * t_rows * t_rows * t_rows)
        [] OTHER -> SqliteError(<<"n", "o", " ", "s", "u", "c", "h", " ", "c", "o", "l", "u", "m", "n", ":", " ", "x">>)

\* what the provider does with the correction request of a request
ConcurrentProviderOutcomes ==
  {ProviderUnreachable, ProviderReply(lmstudio_reply(Fenced(select_2)))}

\* a request before it is submitted. conn is the connection its call of
\* execute_and_parse_query in progress holds, 0 when there is none;
\* chat_history is the list it loaded from the session
NoRequest ==
  [pc |-> "idle", sql_query |-> <<>>, statement |-> <<>>, retried |-> FALSE,
   chat_history |-> <<>>, conn |-> 0, e |-> <<>>, provider_outcome |-> NoLlmCall,
   response |-> NoResponse]

\* a cursor that has executed nothing
NoResult == [kind |-> "none", n |-> 0, msg |-> <<>>]

\* a variant of new_connection in which every call takes the one connection
\* and cursor of the module
shared_connection(count) == 1

\* sqlite3.connect in get_readonly_connection: each call makes a connection
\* object of its own; count is the number of connections made before it
new_connection(count) == count + 1

\* execute_sql up to its first call of execute_and_parse_query
Submit(r) ==
  /\ inflight[r].pc = "idle"
  /\ \E query \in ConcurrentStatements :
        IF query = <<>> \/ db_filepath = <<>>
        THEN inflight' = [inflight EXCEPT ![r].pc = "done", ![r].sql_query = query,
                            ![r].response = Response(400, Reason("Missing SQL or Database", <<>>))]
        ELSE IF ~validate_sql(query).valid
        THEN inflight' = [inflight EXCEPT ![r].pc = "done", ![r].sql_query = query,
                            ![r].response = Response(403, validate_sql(query).reason)]
        ELSE inflight' = [inflight EXCEPT ![r].pc = "connect", ![r].sql_query = query,
                            ![r].statement = query,
                            ![r].chat_history = chat_history]
  /\ UNCHANGED <<validator_vars, session_vars, request_vars, database, environment_vars,
                 builder_vars, cursors, opened, further_vars>>

\* execute_and_parse_query up to conn.cursor(): get_readonly_connection
Connect(r) ==
  /\ inflight[r].pc = "connect"
  /\ LET id == new_connection(opened)
     IN  /\ inflight' = [inflight EXCEPT ![r].pc = "execute", ![r].conn = id]
         /\ cursors' = IF id > Len(cursors)
                       THEN Append(cursors, [conn |-> get_readonly_connection(db_filepath),
                                             result |-> NoResult])
                       ELSE cursors
  /\ opened' = opened + 1
  /\ UNCHANGED <<validator_vars, session_vars, request_vars, database, environment_vars,
                 builder_vars, further_vars>>

\* cursor.execute(cleaned) on the cursor of the request's connection, and
\* the except clauses of execute_sql when it raises
CursorExecute(r) ==
  /\ inflight[r].pc = "execute"
  /\ LET id      == inflight[r].conn
         cleaned == strip(rstrip_chars(inflight[r].statement, {";"}))
         outcome == cursor_execute(cursors[id].conn, stored_answer(cleaned))
     IN  /\ cursors' = [cursors EXCEPT ![id].result = outcome]
         /\ IF outcome.kind = "rows"
            THEN inflight' = [inflight EXCEPT ![r].pc = "fetch"]
            ELSE IF ~inflight[r].retried
            THEN inflight' = [inflight EXCEPT ![r].pc = "correct", ![r].conn = 0,
                                              ![r].e = outcome.msg]
            ELSE inflight' = [inflight EXCEPT ![r].pc = "done", ![r].conn = 0,
                                ![r].response = retry_failure(inflight[r].e, outcome.msg)]
  /\ UNCHANGED <<validator_vars, session_vars, request_vars, database, environment_vars,
                 builder_vars, opened, further_vars>>

\* cursor.fetchmany(MAX_RESULT_ROWS + 1), results[:MAX_RESULT_ROWS], and
\* execute_sql from the return of execute_and_parse_query to its own
FetchAndReturn(r) ==
  /\ inflight[r].pc = "fetch"
  /\ LET results == fetchmany(cursors[inflight[r].conn].result.n, MAX_RESULT_ROWS + 1)
         results_dict == slice(results, 1, MAX_RESULT_ROWS)
         history == update_chat_history_with_results(inflight[r].chat_history,
                                                     inflight[r].statement, results_dict)
     IN  /\ inflight' =
              [inflight EXCEPT ![r].pc = "done", ![r].conn = 0, ![r].chat_history = history,
                 ![r].response =
                    IF inflight[r].retried
                    THEN FoundAfterRetry(results_dict, inflight[r].sql_query,
                                         inflight[r].statement)
                    ELSE Found(results_dict)]
         /\ chat_history' = history            \* session['chat_history'] = chat_history
  /\ UNCHANGED <<validator_vars, db_filepath, schema_context_cache, request_vars, database,
                 environment_vars, builder_vars, cursors, opened, further_vars>>

\* the correction from build_schema_context to the second call of
\* execute_and_parse_query. build_schema_context reads the file on a
\* connection it makes and drops inside the call
CorrectAndRetry(r) ==
  /\ inflight[r].pc = "correct"
  /\ \E outcome \in ConcurrentProviderOutcomes :
        LET build     == build_schema_context(db_filepath, FALSE, disk[db_filepath].tables)
            returned  == call_llm_non_streaming(LLM_PROVIDER, outcome)
            sql_match == re_search_sql_block(returned.value)
            corrected == strip(sql_match.group1)
            failed    == \/ build.raised # ""
                         \/ returned.raised # ""
                         \/ ~sql_match.match
                         \/ ~validate_sql(corrected).valid
        IN  IF failed
            THEN inflight' = [inflight EXCEPT ![r].pc = "done",
                                ![r].provider_outcome = outcome,
                                ![r].response = retry_failure(inflight[r].e, <<>>)]
            ELSE inflight' = [inflight EXCEPT ![r].pc = "connect",
                                ![r].provider_outcome = outcome,
                                ![r].statement = corrected, ![r].retried = TRUE]
  /\ UNCHANGED <<validator_vars, session_vars, request_vars, database, environment_vars,
                 builder_vars, cursors, opened, further_vars>>

\* a session with the plain database loaded and a reply of the assistant as
\* the last message; no request submitted yet
InitConcurrent ==
  /\ sql = <<>>
  /\ verdict = [valid |-> FALSE, reason |-> None]
  /\ vpc = "off"
  /\ sql_for_analysis = <<>>
  /\ db_filepath = evidence_db
  /\ chat_history = earlier_history(2)
  /\ schema_context_cache = build_schema_context(evidence_db, TRUE, plain_database).value
  /\ disk = [path \in {evidence_db} |-> File(plain_database)]
  /\ pc = "off"
  /\ sql_query = <<>>
  /\ e = <<>>
  /\ llm_response = <<>>
  /\ corrected_sql = <<>>
  /\ response = NoResponse
  /\ calls = <<>>
  /\ run = NoRun
  /\ provider_outcome = NoLlmCall
  /\ schema_context = <<>>
  /\ database = "uploaded"
  /\ LLM_PROVIDER = "lmstudio"
  /\ include_samples = TRUE
  /\ built = NoBuild
  /\ inflight = [r \in Requests |-> NoRequest]
  /\ cursors = <<>>
  /\ opened = 0
  /\ AtRest

NextConcurrent ==
  \E r \in Requests :
     \/ Submit(r)
     \/ Connect(r)
     \/ CursorExecute(r)
     \/ FetchAndReturn(r)
     \/ CorrectAndRetry(r)

SpecConcurrent == InitConcurrent /\ [][NextConcurrent]_vars

\* the response execute_sql gives to query when no other request runs and
\* the provider answers the correction with outcome
alone(query, outcome) ==
  LET first == execute_and_parse_query(db_filepath, query,
                                       stored_answer(strip(rstrip_chars(query, {";"}))))
      returned  == call_llm_non_streaming(LLM_PROVIDER, outcome)
      sql_match == re_search_sql_block(returned.value)
      corrected == strip(sql_match.group1)
      second == execute_and_parse_query(db_filepath, corrected,
                                        stored_answer(strip(rstrip_chars(corrected, {";"}))))
  IN  IF ~validate_sql(query).valid THEN Response(403, validate_sql(query).reason)
      ELSE IF first.outcome.kind = "rows" THEN Found(first.rows)
      ELSE IF \/ returned.raised # ""
              \/ ~sql_match.match
              \/ ~validate_sql(corrected).valid
              \/ second.outcome.kind # "rows"
      THEN SqlError(first.outcome.msg)
      ELSE FoundAfterRetry(second.rows, query, corrected)

\* C26: under every interleaving of the requests, two requests never hold
\* the same connection, a request that has returned has the response it
\* would have if it had run alone, and that response carries at most
\* MAX_RESULT_ROWS rows
C26_ConcurrentRequestsAsAlone ==
  /\ \A r1, r2 \in Requests :
        (r1 # r2 /\ inflight[r1].conn # 0 /\ inflight[r2].conn # 0)
          => inflight[r1].conn # inflight[r2].conn
  /\ \A r \in Requests :
        inflight[r].pc = "done"
          => /\ inflight[r].response
                  = alone(inflight[r].sql_query, inflight[r].provider_outcome)
             /\ inflight[r].response.status = 200
                  => Len(inflight[r].response.query_results) <= MAX_RESULT_ROWS

\* request 2 holds the cursor of its second connection, executed and not
\* fetched; request 1 connected after that, and has returned the first
\* MAX_RESULT_ROWS rows of its own statement
C26_Witness ==
  /\ inflight[1].pc = "done"
  /\ inflight[1].sql_query = select_many
  /\ inflight[1].response = Found([k \in 1..MAX_RESULT_ROWS |-> k])
  /\ inflight[2].pc = "fetch"
  /\ inflight[2].retried
  /\ inflight[2].conn = 2
  /\ opened = 3

(***************************************************************************)
(* execute_and_parse_query applied to one accepted text                    *)
(***************************************************************************)
\* execute_sql from the verdict of validate_sql to the return of its first
\* call of execute_and_parse_query, for a statement the engine answers with
\* rows
ExecuteText ==
  /\ vpc = "return"
  /\ verdict.valid
  /\ run = NoRun
  /\ \E n \in {0, 2} : run' = execute_and_parse_query(evidence_db, sql, Rows(n))
  /\ UNCHANGED <<validator_vars, session_vars, pc, sql_query, e, llm_response, corrected_sql,
                 response, calls, provider_outcome, schema_context, database,
                 environment_vars, builder_vars, executor_vars, further_vars>>

NextExecuteText == Validate \/ ExecuteText

SpecExecuteText == InitValidate /\ [][NextExecuteText]_vars

\* execute_and_parse_query was called with sql
Executed == run # NoRun

\* text without its surrounding whitespace and without one ';' at its end,
\* when it has one, and the whitespace before it
one_terminator_removed(text) ==
  LET trimmed == strip(text)
  IN  IF trimmed # <<>> /\ trimmed[Len(trimmed)] = ";"
      THEN strip(SubSeq(trimmed, 1, Len(trimmed) - 1))
      ELSE trimmed

\* C31: the text handed to the engine is the submitted statement with its
\* surrounding whitespace and at most one trailing ';' removed, and nothing
\* else changed; when the statement ends in ';' and optional whitespace, the
\* executed text has neither.  The code hands SELECT; to the engine for
\* SELECT; followed by a blank, and removes both ';' of SELECT;; .
C31_ExecutedText ==
  Executed => run.cleaned = one_terminator_removed(sql)

\* ---------------------------------------------------------------------
\* The session after an upload that fails (app.py, upload_file)
\* ---------------------------------------------------------------------

\* C35: an upload request that fails leaves db_filepath, chat_history and
\* schema_context_cache of the session as they were before the request.
\* The code assigns db_filepath and chat_history before it calls
\* build_schema_context, and keeps the assignments when that call raises.
C35_FailedUploadKeepsSession ==
  [][upload_file /\ response'.status # 200
       => /\ db_filepath' = db_filepath
          /\ chat_history' = chat_history
          /\ schema_context_cache' = schema_context_cache]_vars

\* ---------------------------------------------------------------------
\* The chat history of the session under execute_sql (app.py)
\* ---------------------------------------------------------------------

\* the statement whose rows a 200 response carries
producing_statement ==
  IF "retried" \in DOMAIN response THEN corrected_sql ELSE sql_query

\* C34: a step of execute_sql changes chat_history only when it returns the
\* rows of an execution, and then only the last message, which is one of the
\* assistant: its sql_query becomes the statement that produced the rows
\* (the corrected one after a correction), its preview the first 5 rows at
\* most and its total_results the number of rows returned; the last message
\* of the assistant gets these keys at every such step; a step that returns
\* a rejection or a failure leaves chat_history as it was.
C34_HistoryFrame ==
  [][LET n == Len(chat_history)
         succeeded == pc' = "done" /\ response'.status = 200
     IN  /\ chat_history' # chat_history
              => /\ succeeded
                 /\ Len(chat_history') = n
                 /\ \A k \in 1..(n - 1) : chat_history'[k] = chat_history[k]
                 /\ chat_history[n].role = "assistant"
         /\ (succeeded /\ n > 0 /\ chat_history[n].role = "assistant")
              => /\ chat_history'[n].role = "assistant"
                 /\ chat_history'[n].has_results
                 /\ chat_history'[n].sql_query = producing_statement'
                 /\ Len(chat_history'[n].query_results_preview) <= 5
                 /\ chat_history'[n].query_results_preview
                      = SubSeq(response'.query_results, 1,
                               Min(5, Len(response'.query_results)))
                 /\ chat_history'[n].total_results = Len(response'.query_results)
         /\ (pc' = "done" /\ response'.status # 200) => chat_history' = chat_history]_vars

\* after a correction, the last message of the assistant holds the corrected
\* statement, 5 of the MAX_RESULT_ROWS rows returned and their number
C34_Witness ==
  /\ Responded
  /\ response.status = 200
  /\ "retried" \in DOMAIN response
  /\ chat_history # <<>>
  /\ chat_history[Len(chat_history)].role = "assistant"
  /\ chat_history[Len(chat_history)].sql_query = corrected_sql
  /\ corrected_sql # sql_query
  /\ Len(chat_history[Len(chat_history)].query_results_preview) = 5
  /\ chat_history[Len(chat_history)].total_results = MAX_RESULT_ROWS

\* a request that returned rows in a session whose last message is one of
\* the user, which it left without the keys
C34_WitnessUser ==
  /\ Responded
  /\ response.status = 200
  /\ chat_history # <<>>
  /\ chat_history[Len(chat_history)] = Message("user", 0)

(***************************************************************************)
(* build_error_correction_prompt applied to one error text                 *)
(***************************************************************************)
\* the pieces of the error texts: the phrases of the three categories, in
\* the case of the engine and in another, the word near, and names
ErrorFragments ==
  { <<"n", "o", " ", "s", "u", "c", "h", " ", "c", "o", "l", "u", "m", "n">>,
    <<"N", "o", " ", "S", "u", "c", "h", " ", "T", "a", "b", "l", "e">>,
    <<"s", "y", "n", "t", "a", "x", " ", "e", "r", "r", "o", "r">>,
    <<"n", "e", "a", "r">>,
    <<" ", "n", "e", "a", "r", "b", "y">>,
    <<":", " ", "x">> }

\* the error text is a concatenation of at most MaxFragments fragments; the
\* failed statement and the schema context are those of a request
InitPrompt ==
  /\ sql = <<>>
  /\ verdict = [valid |-> FALSE, reason |-> None]
  /\ vpc = "off"
  /\ sql_for_analysis = <<>>
  /\ db_filepath = evidence_db
  /\ chat_history = <<>>
  /\ schema_context_cache = <<>>
  /\ pc = "off"
  /\ sql_query = select_x
  /\ \E n \in 0..MaxFragments :
        \E parts \in [1..n -> ErrorFragments] : e = concat(parts)
  /\ llm_response = <<>>
  /\ corrected_sql = <<>>
  /\ response = NoResponse
  /\ calls = <<>>
  /\ run = NoRun
  /\ provider_outcome = NoLlmCall
  /\ schema_context \in {<<>>, build_schema_context(evidence_db, FALSE, plain_database).value}
  /\ database = "uploaded"
  /\ LLM_PROVIDER = "lmstudio"
  /\ disk = [path \in {evidence_db} |-> File(plain_database)]
  /\ include_samples = TRUE
  /\ built = NoBuild
  /\ NoExecutor
  /\ AtRest

\* correction_prompt = build_error_correction_prompt(str(e), sql_query,
\*                                                   schema_context)
BuildPrompt ==
  /\ correction_prompt = <<>>
  /\ correction_prompt' = build_error_correction_prompt(e, sql_query, schema_context)
  /\ UNCHANGED <<validator_vars, session_vars, request_vars, database, environment_vars,
                 builder_vars, executor_vars, uuids, legacy_verdict, connections,
                 chat_provider, correction_provider, stream_vars>>

NextPrompt == BuildPrompt

SpecPrompt == InitPrompt /\ [][NextPrompt]_vars

\* build_error_correction_prompt has returned
Prompted == correction_prompt # <<>>

Hints == {column_hint, table_hint, syntax_hint, generic_hint}

\* the hints the prompt carries between its opening and the error
hints_of(prompt) ==
  {hint \in Hints : startswith(prompt, prompt_opening \o hint \o prompt_error)}

\* text holds phrase, whatever the case of the letters of either
mentions(text, phrase) == contains(upper(text), upper(phrase))

\* C32, as stated: the prompt carries exactly one hint: the missing-column
\* hint when the error text holds 'no such column', else the missing-table
\* hint when it holds 'no such table', else the syntax hint when it holds
\* 'syntax error', and the generic hint for every other error text.  The
\* code gives the syntax hint to every error text that holds 'near' as well.
C32_HintByCategory ==
  Prompted
  => hints_of(correction_prompt) =
       { IF mentions(e, <<"n", "o", " ", "s", "u", "c", "h", " ", "c", "o", "l", "u", "m", "n">>) THEN column_hint
         ELSE IF mentions(e, <<"n", "o", " ", "s", "u", "c", "h", " ", "t", "a", "b", "l", "e">>) THEN table_hint
         ELSE IF mentions(e, <<"s", "y", "n", "t", "a", "x", " ", "e", "r", "r", "o", "r">>) THEN syntax_hint
         ELSE generic_hint }

\* C32, amended: the syntax hint is selected when the error text holds
\* 'syntax error' or 'near'; the generic hint for every other error text.
C32_HintByCategoryOrNear ==
  Prompted
  => hints_of(correction_prompt) =
       { IF mentions(e, <<"n", "o", " ", "s", "u", "c", "h", " ", "c", "o", "l", "u", "m", "n">>) THEN column_hint
         ELSE IF mentions(e, <<"n", "o", " ", "s", "u", "c", "h", " ", "t", "a", "b", "l", "e">>) THEN table_hint
         ELSE IF mentions(e, <<"s", "y", "n", "t", "a", "x", " ", "e", "r", "r", "o", "r">>) \/ mentions(e, <<"n", "e", "a", "r">>)
         THEN syntax_hint
         ELSE generic_hint }

\* an error text with 'near' and none of the three phrases, which got the
\* syntax hint
C32_Witness ==
  /\ Prompted
  /\ mentions(e, <<"n", "e", "a", "r">>)
  /\ ~mentions(e, <<"s", "y", "n", "t", "a", "x", " ", "e", "r", "r", "o", "r">>)
  /\ ~mentions(e, <<"n", "o", " ", "s", "u", "c", "h", " ", "c", "o", "l", "u", "m", "n">>)
  /\ ~mentions(e, <<"n", "o", " ", "s", "u", "c", "h", " ", "t", "a", "b", "l", "e">>)
  /\ hints_of(correction_prompt) = {syntax_hint}

\* an error text with the phrases of two categories, which got the hint of
\* the first in the order of the chain
C32_WitnessBoth ==
  /\ Prompted
  /\ mentions(e, <<"n", "o", " ", "s", "u", "c", "h", " ", "c", "o", "l", "u", "m", "n">>)
  /\ mentions(e, <<"n", "o", " ", "s", "u", "c", "h", " ", "t", "a", "b", "l", "e">>)
  /\ hints_of(correction_prompt) = {column_hint}

(***************************************************************************)
(* the two validators applied to one text                                  *)
(***************************************************************************)
\* validate_sql of validation.py and validate_sql of the top-level app.py,
\* each called with sql
ValidateBoth ==
  /\ vpc = "call"
  /\ verdict' = validate_sql(sql)
  /\ legacy_verdict' = legacy_validate_sql(sql)
  /\ vpc' = "return"
  /\ UNCHANGED <<sql, sql_for_analysis, session_vars, request_vars, database,
                 environment_vars, builder_vars, executor_vars, correction_prompt, uuids,
                 connections, chat_provider, correction_provider, stream_vars>>

NextLegacy == ValidateBoth

SpecLegacy == InitValidate /\ [][NextLegacy]_vars

\* C37: for every text the validator of the top-level app.py and
\* validation.validate_sql return the same accept/reject verdict.  The
\* top-level one looks for the forbidden keywords in the whole text, the
\* other in the text without its quoted spans and comments.
C37_SameVerdict ==
  Returned => legacy_verdict.valid = verdict.valid

\* ---------------------------------------------------------------------------
\* The connections a request opens on the file of the session
\* ---------------------------------------------------------------------------

\* C38: every connection the application opens on the loaded file is a
\* read-only one: opened with mode=ro and set to query_only
C38_ReadOnlyConnections ==
  \A k \in DOMAIN connections :
    connections[k].mode = "ro" /\ connections[k].query_only

(***************************************************************************)
(* chat_stream and execute_sql requests of one session, one after the      *)
(* other                                                                   *)
(***************************************************************************)
\* the session holds the plain database and its schema context, and no
\* message yet
InitProvider ==
  /\ Init
  /\ disk[evidence_db] = File(plain_database)
  /\ LLM_PROVIDER = "lmstudio"
  /\ chat_history = <<>>

\* the chat_stream requests that write the statements come before the
\* execute_sql requests that run them
NextProvider == (pc = "idle" /\ chat_stream) \/ execute_sql

SpecProvider == InitProvider /\ [][NextProvider]_vars

\* the step sends the correction request of an execute_sql request
correction_sent == correction_provider' # "" /\ correction_provider' # correction_provider

\* C39: the correction request of an execute_sql request goes to the
\* provider the most recent chat_stream request of the session streamed from
C39_CorrectionProvider ==
  [][correction_sent /\ chat_provider # "" => correction_provider' = chat_provider]_vars

(***************************************************************************)
(* chat_stream, save_assistant_message and add_note on one session         *)
(***************************************************************************)
\* request.json of a save_assistant_message request
SaveBodies == {<<>>, [content |-> <<>>], [content |-> <<"o", "k">>]}

\* POST /save_assistant_message: the message of the assistant gets an id of
\* its own and is appended, the history is cut to its last
\* MAX_STORED_MESSAGES messages when it is longer, and the session is
\* assigned
save_assistant_message ==
  /\ pc \in {"off", "idle", "done"}
  /\ uuids < MaxMessages
  /\ \E data \in SaveBodies :
        IF DOMAIN data = {}
        THEN /\ response' = Response(400, Reason("Invalid request body", <<>>))
             /\ UNCHANGED <<chat_history, uuids>>
        ELSE IF data.content = <<>>
        THEN /\ response' = Response(400, Reason("No content provided", <<>>))
             /\ UNCHANGED <<chat_history, uuids>>
        ELSE LET appended == Append(chat_history, Message("assistant", uuids + 1))
             IN  /\ chat_history' =
                       IF Len(appended) > MAX_STORED_MESSAGES
                       THEN slice(appended, Len(appended) - MAX_STORED_MESSAGES + 1,
                                  MAX_STORED_MESSAGES)   \* chat_history[-MAX_STORED_MESSAGES:]
                       ELSE appended
                 /\ uuids' = uuids + 1
                 /\ response' = [status |-> 200, message_id |-> uuids + 1]
  /\ connections' = <<>>
  /\ UNCHANGED <<validator_vars, db_filepath, schema_context_cache, pc, sql_query, e,
                 llm_response, corrected_sql, calls, run, provider_outcome, schema_context,
                 database, environment_vars, builder_vars, executor_vars, correction_prompt,
                 legacy_verdict, chat_provider, correction_provider, stream_vars>>

\* an id no message has
unknown_id == 0 - MAX_STORED_MESSAGES

\* request.json of an add_note request
NoteBodies ==
  {<<>>, [note_content |-> <<"n">>]}
    \cup {[message_id |-> id] : id \in {0}}
    \cup {[message_id |-> id, note_content |-> note] :
            id \in {0, 1, unknown_id}, note \in {<<>>, <<"n">>}}

\* the place of the first message of history with the id, 0 when none has it
message_with_id(history, id) ==
  IF \E k \in DOMAIN history : history[k].id = id
  THEN CHOOSE k \in DOMAIN history :
         /\ history[k].id = id
         /\ \A j \in 1..(k - 1) : history[j].id # id
  ELSE 0

\* POST /add_note: the first message with the id gets the note, and the
\* session is assigned; no message with the id is a 404
add_note ==
  /\ pc \in {"off", "idle", "done"}
  /\ \E data \in NoteBodies :
        IF DOMAIN data = {}
        THEN /\ response' = Response(400, Reason("Invalid request body", <<>>))
             /\ UNCHANGED chat_history
        ELSE IF "message_id" \notin DOMAIN data \/ "note_content" \notin DOMAIN data
        THEN /\ response' = Response(400, Reason("Missing message_id or note_content", <<>>))
             /\ UNCHANGED chat_history
        ELSE LET k == message_with_id(chat_history, data.message_id)
             IN  IF k = 0
                 THEN /\ response' = Response(404, Reason("Message not found", <<>>))
                      /\ UNCHANGED chat_history
                 ELSE /\ chat_history' =
                           [chat_history EXCEPT ![k] =
                              [@ EXCEPT !.has_note = TRUE, !.note = data.note_content]]
                      /\ response' = [status |-> 200]
  /\ connections' = <<>>
  /\ UNCHANGED <<validator_vars, db_filepath, schema_context_cache, pc, sql_query, e,
                 llm_response, corrected_sql, calls, run, provider_outcome, schema_context,
                 database, environment_vars, builder_vars, executor_vars, correction_prompt,
                 uuids, legacy_verdict, chat_provider, correction_provider, stream_vars>>

\* a session without a database whose history holds no message, or one
\* message less than MAX_STORED_MESSAGES, or MAX_STORED_MESSAGES of them
InitHistory ==
  /\ sql = <<>>
  /\ verdict = [valid |-> FALSE, reason |-> None]
  /\ vpc = "off"
  /\ sql_for_analysis = <<>>
  /\ db_filepath = <<>>
  /\ \E n \in {0, MAX_STORED_MESSAGES - 1, MAX_STORED_MESSAGES} :
        chat_history = earlier_history(n)
  /\ schema_context_cache = <<>>
  /\ disk = [path \in {evidence_db, case_db} |-> NoFile]
  /\ pc = "off"
  /\ sql_query = <<>>
  /\ e = <<>>
  /\ llm_response = <<>>
  /\ corrected_sql = <<>>
  /\ response = NoResponse
  /\ calls = <<>>
  /\ run = NoRun
  /\ provider_outcome = NoLlmCall
  /\ schema_context = <<>>
  /\ database = "uploaded"
  /\ LLM_PROVIDER = "lmstudio"
  /\ include_samples = TRUE
  /\ built = NoBuild
  /\ NoExecutor
  /\ AtRest

NextHistory == chat_stream \/ save_assistant_message \/ add_note

SpecHistory == InitHistory /\ [][NextHistory]_vars

\* C33: the chat history stored in the session holds at most
\* MAX_STORED_MESSAGES messages
C33_StoredHistoryCapped == Len(chat_history) <= MAX_STORED_MESSAGES

(***************************************************************************)
(* One run of stream_llm_response                                          *)
(***************************************************************************)
\* the most lines a run reads
MaxLines == 2

\* the JSON a line may hold: a content and a last message of each provider,
\* a content that is the text of the marker, an error object, and values
\* of another shape than the branch reads
LineValues ==
  { JsonObject([choices |->
      JsonArray(<<JsonObject([delta |-> JsonObject([content |-> JsonString(<<"H", "i">>)])])>>)]),
    JsonObject([choices |->
      JsonArray(<<JsonObject([delta |->
                    JsonObject([content |-> JsonString(<<END_OF_STREAM>>)])])>>)]),
    JsonObject([choices |-> JsonArray(<<>>),
                usage |-> JsonObject([prompt_tokens |-> JsonNumber(1),
                                      completion_tokens |-> JsonNumber(2),
                                      total_tokens |-> JsonNumber(3)])]),
    JsonObject([choices |-> JsonArray(<<JsonObject([delta |-> JsonNull])>>)]),
    JsonObject([message |-> JsonObject([content |-> JsonString(<<"H", "i">>)]),
                done |-> JsonBool(FALSE)]),
    JsonObject([message |-> JsonObject([content |-> JsonString(<<>>)]),
                done |-> JsonBool(TRUE),
                prompt_eval_count |-> JsonNumber(1), eval_count |-> JsonNumber(2)]),
    JsonObject([message |-> JsonNull]),
    JsonObject([error |-> JsonString(<<"x">>)]),
    JsonNumber(5) }

Lines ==
  {EmptyLine, UndecodableLine, DoneLine, NotJsonLine(FALSE), NotJsonLine(TRUE)}
    \cup {JsonLine(data_prefix, json) : data_prefix \in BOOLEAN, json \in LineValues}

\* chat_stream has returned the response that iterates
\* stream_llm_response(messages_to_send, provider, model)
InitStream ==
  /\ sql = <<>>
  /\ verdict = [valid |-> FALSE, reason |-> None]
  /\ vpc = "off"
  /\ sql_for_analysis = <<>>
  /\ db_filepath = <<>>
  /\ chat_history = <<Message("user", 1)>>
  /\ schema_context_cache = <<>>
  /\ disk = [path \in {evidence_db, case_db} |-> NoFile]
  /\ pc = "off"
  /\ sql_query = <<>>
  /\ e = <<>>
  /\ llm_response = <<>>
  /\ corrected_sql = <<>>
  /\ response = ChatStream(<<>>)
  /\ calls = <<>>
  /\ run = NoRun
  /\ provider_outcome = NoLlmCall
  /\ schema_context = <<>>
  /\ database = "uploaded"
  /\ LLM_PROVIDER = "lmstudio"
  /\ include_samples = TRUE
  /\ built = NoBuild
  /\ NoExecutor
  /\ correction_prompt = <<>>
  /\ uuids = 1
  /\ legacy_verdict = [valid |-> FALSE, reason |-> None]
  /\ connections = <<>>
  /\ chat_provider \in {"lmstudio", "ollama"}
  /\ correction_provider = ""
  /\ stream_pc = "post"
  /\ full_response = <<>>
  /\ token_usage = NoUsage
  /\ iter_lines = <<>>
  /\ chunks = <<>>

\* everything but the run of stream_llm_response
beside_stream ==
  <<validator_vars, session_vars, request_vars, database, environment_vars, builder_vars,
    executor_vars, correction_prompt, uuids, legacy_verdict, connections, chat_provider,
    correction_provider>>

\* an except clause of stream_llm_response catches the exception and yields
\* its message
stream_except(exception) ==
  /\ chunks' = Append(chunks, error_chunk(get_provider_config(chat_provider), exception))
  /\ stream_pc' = "failed"

\* requests.post and raise_for_status: the provider starts its reply, or the
\* request raises
StreamPost ==
  /\ stream_pc = "post"
  /\ \/ stream_pc' = "lines" /\ UNCHANGED chunks
     \/ \E exception \in TransportErrors : stream_except(exception)
  /\ UNCHANGED <<beside_stream, full_response, token_usage, iter_lines>>

\* one turn of the loop: the next line, and the loop body on it; an
\* exception no except clause catches ends the run
StreamLine ==
  /\ stream_pc = "lines"
  /\ Len(iter_lines) < MaxLines
  /\ \E line \in Lines :
        LET step == stream_line(get_provider_config(chat_provider), line,
                                full_response, token_usage)
        IN  /\ iter_lines' = Append(iter_lines, line)
            /\ chunks' = chunks \o step.yielded
            /\ full_response' = step.full_response
            /\ token_usage' = step.token_usage
            /\ stream_pc' = IF step.raised # "" THEN "raised" ELSE "lines"
  /\ UNCHANGED beside_stream

\* r.iter_lines() raises while the next line is read
StreamBreak ==
  /\ stream_pc = "lines"
  /\ \E exception \in TransportErrors : stream_except(exception)
  /\ UNCHANGED <<beside_stream, full_response, token_usage, iter_lines>>

\* the reply has no more lines: the last chunk is yielded
StreamEnd ==
  /\ stream_pc = "lines"
  /\ chunks' = Append(chunks, end_chunk(full_response, token_usage))
  /\ stream_pc' = "complete"
  /\ UNCHANGED <<beside_stream, full_response, token_usage, iter_lines>>

NextStream == StreamPost \/ StreamLine \/ StreamBreak \/ StreamEnd

SpecStream == InitStream /\ [][NextStream]_vars

\* the places of the chunks that start with the marker
end_chunks == {k \in DOMAIN chunks : chunks[k] # <<>> /\ chunks[k][1] = END_OF_STREAM}

\* the text a chunk carries after the marker, up to the marker of the token
\* usage when it has one
carried_text(chunk) ==
  LET rest == Tail(chunk)
  IN  IF \E k \in DOMAIN rest : rest[k] = TOKEN_USAGE
      THEN SubSeq(rest, 1, (CHOOSE k \in DOMAIN rest :
                              /\ rest[k] = TOKEN_USAGE
                              /\ \A j \in 1..(k - 1) : rest[j] # TOKEN_USAGE) - 1)
      ELSE rest

\* the run ended without a transport error: one chunk starts with the
\* marker, it is the last one, and it carries the chunks before it
one_end_chunk_last ==
  stream_pc \in {"complete", "raised"} =>
    /\ end_chunks = {Len(chunks)}
    /\ chunks # <<>>
    /\ carried_text(chunks[Len(chunks)]) = concat(SubSeq(chunks, 1, Len(chunks) - 1))

\* the run ended with a transport error: no chunk starts with the marker,
\* and the last one is an error message with the label of the provider
error_chunk_last ==
  stream_pc = "failed" =>
    /\ end_chunks = {}
    /\ chunks # <<>>
    /\ LET last_chunk == chunks[Len(chunks)]
       IN  /\ \E k \in DOMAIN last_chunk : last_chunk[k] \in {"Error: ", " Error: "}
           /\ \E k \in DOMAIN last_chunk :
                 last_chunk[k] = get_provider_config(chat_provider).label

\* C36: a run of stream_llm_response that ends without a transport error
\* yields exactly one chunk that starts with <|END_OF_STREAM|>, as its last
\* chunk, carrying the content chunks before it in order; a run that ends
\* with a timeout, a connection error or a request error yields no such
\* chunk, and an error message naming the provider as its last chunk
C36_EndOfStream == one_end_chunk_last /\ error_chunk_last

=============================================================================
